---- MODULE Spec2Model ----
(***************************************************************************)
(* A model of the chess rules engine of src/atheris.py (class Board and    *)
(* the module-level helpers).  Python values are rendered as follows:      *)
(*   - a tile [kind, moved, side] is the tuple <<kind, moved, side>>;      *)
(*     Python's True/False and 1/0 compare equal, so a side and the turn   *)
(*     are 1 (White) or 0 (Black) and "not side" is 1 - side;              *)
(*   - a Point (row, col) is <<row, col>> with 0-based coordinates;        *)
(*   - self.board[r][c] is board[r][c];                                    *)
(*   - a Python list is a sequence (order and duplicates kept);            *)
(*   - a str is a sequence of one-character strings;                       *)
(*   - None is "None" for result and return values, and the empty          *)
(*     sequence for coord_input and last_move.                             *)
(***************************************************************************)
EXTENDS Integers, Sequences, FiniteSets, TLC

\* The fields of Board
VARIABLES board, turn, half_moves, past_states, result, coord_input, last_move

\* What an observer of the calls records: the game being played, the last
\* call with its argument and return value, whether it applied a move, the
\* number of moves applied, the signatures of the positions the game has been
\* in, and the stack of moves a traversal has made and not yet taken back
VARIABLES game, last_op, last_arg, last_ret, last_applied, applied, hist, sim

vars == <<board, turn, half_moves, past_states, result, coord_input, last_move,
          game, last_op, last_arg, last_ret, last_applied, applied, hist, sim>>

None == "None"

Rows == 0..7

Squares == Rows \X Rows

\* tile[0], tile[1], tile[2] of the source
Kind(tile) == tile[1]

Moved(tile) == tile[2]

Side(tile) == tile[3]

\* "not side" on a side that is 0/1 or a bool
NotSide(side) == 1 - side

\* the bounds test "0 <= p[0] <= 7 and 0 <= p[1] <= 7"
OnBoard(p) == p[1] >= 0 /\ p[1] <= 7 /\ p[2] >= 0 /\ p[2] <= 7

\* Python list indexing: a negative index counts from the end of the 8 rows
PyIdx(i) == IF i < 0 THEN i + 8 ELSE i

\* self.board[p[0]][p[1]]
At(b, p) == b[PyIdx(p[1])][PyIdx(p[2])]

\* self.board[p[0]][p[1]] = tile
Put(b, p, tile) == [b EXCEPT ![PyIdx(p[1])][PyIdx(p[2])] = tile]

------------------------------------------------------------------------------
(* Characters and the two dictionaries *)

piece_dict == (" " :> 0) @@ ("p" :> 1) @@ ("n" :> 2) @@ ("b" :> 3) @@ ("r" :> 4)
              @@ ("q" :> 5) @@ ("k" :> 6)

col_dict == ("a" :> 0) @@ ("b" :> 1) @@ ("c" :> 2) @@ ("d" :> 3) @@ ("e" :> 4)
            @@ ("f" :> 5) @@ ("g" :> 6) @@ ("h" :> 7)

\* str.lower() on the characters the model uses
LowerMap == ("A" :> "a") @@ ("B" :> "b") @@ ("C" :> "c") @@ ("D" :> "d")
            @@ ("E" :> "e") @@ ("F" :> "f") @@ ("G" :> "g") @@ ("H" :> "h")
            @@ ("K" :> "k") @@ ("Q" :> "q") @@ ("R" :> "r") @@ ("N" :> "n")
            @@ ("P" :> "p") @@ ("S" :> "s") @@ ("I" :> "i") @@ ("W" :> "w")

LowerChar(c) == IF c \in DOMAIN LowerMap THEN LowerMap[c] ELSE c

Lower(s) == [i \in 1..Len(s) |-> LowerChar(s[i])]

\* str.isupper() of one character: 1 (True) or 0 (False)
IsUpper(c) == IF c \in DOMAIN LowerMap THEN 1 ELSE 0

DigitMap == ("0" :> 0) @@ ("1" :> 1) @@ ("2" :> 2) @@ ("3" :> 3) @@ ("4" :> 4)
            @@ ("5" :> 5) @@ ("6" :> 6) @@ ("7" :> 7) @@ ("8" :> 8) @@ ("9" :> 9)

\* str.isnumeric() of one character; int(c) raises ValueError when it is false
IsDigit(c) == c \in DOMAIN DigitMap

RECURSIVE StripLeft(_)
StripLeft(s) == IF s # <<>> /\ Head(s) = " " THEN StripLeft(Tail(s)) ELSE s

RECURSIVE StripRight(_)
StripRight(s) ==
    IF s # <<>> /\ s[Len(s)] = " " THEN StripRight(SubSeq(s, 1, Len(s) - 1)) ELSE s

\* str.strip()
Strip(s) == StripRight(StripLeft(s))

------------------------------------------------------------------------------
(* array_from_fen *)

RECURSIVE SplitSlash(_, _, _)
\* fen.split("/")
SplitSlash(s, i, cur) ==
    IF i > Len(s) THEN <<cur>>
    ELSE IF s[i] = "/" THEN <<cur>> \o SplitSlash(s, i + 1, <<>>)
    ELSE SplitSlash(s, i + 1, Append(cur, s[i]))

RECURSIVE ParseRow(_, _)
\* one row of piece_list: [piece_dict[i.lower()], i.isupper()] per square
ParseRow(row, i) ==
    IF i > Len(row) \/ row[i] = " " THEN <<>>
    ELSE (IF IsDigit(row[i])
          THEN [k \in 1..DigitMap[row[i]] |-> <<piece_dict[" "], IsUpper(" ")>>]
          ELSE << <<piece_dict[LowerChar(row[i])], IsUpper(row[i])>> >>)
         \o ParseRow(row, i + 1)

array_from_fen(fen) ==
    LET rows == SplitSlash(fen, 1, <<>>)
        piece_list == [r \in 1..Len(rows) |-> ParseRow(rows[r], 1)]
        side == IF \E i \in 1..Len(fen) : fen[i] = "w" THEN 1 ELSE 0
    IN  <<[j \in Rows |-> [i \in Rows |->
             <<piece_list[8 - j][i + 1][1], 0, piece_list[8 - j][i + 1][2]>>]],
          side>>

------------------------------------------------------------------------------
(* Attack detector *)

KingOffsets == << <<1, 1>>, <<1, 0>>, <<1, -1>>, <<0, 1>>, <<0, -1>>, <<-1, 1>>,
                  <<-1, 0>>, <<-1, -1>> >>

KnightOffsets == << <<1, 2>>, <<1, -2>>, <<-1, 2>>, <<-1, -2>>, <<2, 1>>, <<2, -1>>,
                    <<-2, 1>>, <<-2, -1>> >>

\* the candidate squares p1 + offset, in the order of the offsets
Shifted(p1, offsets) ==
    [i \in 1..Len(offsets) |-> <<p1[1] + offsets[i][1], p1[2] + offsets[i][2]>>]

RECURSIVE ray_first(_, _, _, _, _, _)
\* the inner loop of ray_checks for one direction: the attacker found, if any
ray_first(b, p1, side, d, x, i) ==
    LET p2 == <<p1[1] + d[1] * i, p1[2] + d[2] * i>>
    IN  IF i > 7 \/ ~OnBoard(p2) THEN <<>>
        ELSE LET tile == At(b, p2)
             IN  IF Kind(tile) = 0 THEN ray_first(b, p1, side, d, x, i + 1)
                 ELSE IF Side(tile) = side \/ Kind(tile) \notin {x, 5} THEN <<>>
                 ELSE <<p2>>

ray_checks(b, p1, side) ==
    ray_first(b, p1, side, <<1, 1>>, 3, 1) \o ray_first(b, p1, side, <<-1, 1>>, 3, 1)
    \o ray_first(b, p1, side, <<1, -1>>, 3, 1) \o ray_first(b, p1, side, <<-1, -1>>, 3, 1)
    \o ray_first(b, p1, side, <<0, 1>>, 4, 1) \o ray_first(b, p1, side, <<1, 0>>, 4, 1)
    \o ray_first(b, p1, side, <<0, -1>>, 4, 1) \o ray_first(b, p1, side, <<-1, 0>>, 4, 1)

knight_checks(b, p1, side) ==
    SelectSeq(Shifted(p1, KnightOffsets),
              LAMBDA p2 : OnBoard(p2) /\ Kind(At(b, p2)) # 0
                          /\ ~(Side(At(b, p2)) = side \/ Kind(At(b, p2)) # 2))

\* a variant of pawn_checks that looks one row the other way
pawn_checks_behind(b, p1, side) ==
    LET direct == IF side = 1 THEN -1 ELSE 1
    IN  SelectSeq(<< <<p1[1] + direct, p1[2] - 1>>, <<p1[1] + direct, p1[2] + 1>> >>,
                  LAMBDA p2 : OnBoard(p2)
                              /\ ~(Kind(At(b, p2)) # 1 \/ Side(At(b, p2)) = side))

\* Board.pawn_checks: the pawns of the other side on the two diagonal squares
\* one row further from side's home row
pawn_checks(b, p1, side) ==
    LET direct == IF side = 1 THEN 1 ELSE -1
    IN  SelectSeq(<< <<p1[1] + direct, p1[2] - 1>>, <<p1[1] + direct, p1[2] + 1>> >>,
                  LAMBDA p2 : OnBoard(p2)
                              /\ ~(Kind(At(b, p2)) # 1 \/ Side(At(b, p2)) = side))

king_checks(b, p1, side) ==
    SelectSeq(Shifted(p1, KingOffsets),
              LAMBDA p2 : OnBoard(p2)
                          /\ ~(Kind(At(b, p2)) # 6 \/ Side(At(b, p2)) = side))

fetch_attackers(b, p1, side) ==
    king_checks(b, p1, side) \o pawn_checks(b, p1, side)
    \o knight_checks(b, p1, side) \o ray_checks(b, p1, side)

------------------------------------------------------------------------------
(* Simulation of a move and the legality filter *)

\* Board.update: the occupancy effect of moving the piece at p1 to p2
update(b, p1, p2) ==
    LET tile_1 == At(b, p1)
    IN  Put(Put(b, p2, <<Kind(tile_1), 1, Side(tile_1)>>), p1, <<0, 1, 0>>)

\* a variant of the restoring assignments that writes back the origin square
\* only, leaving the destination as the simulated move wrote it
restore_origin_only(b, p1, p2, stored_data) ==
    Put(b, p1, <<stored_data[1], stored_data[2], stored_data[3]>>)

\* the two restoring assignments from stored_data (first p1, then p2)
restore(b, p1, p2, stored_data) ==
    Put(Put(b, p1, <<stored_data[1], stored_data[2], stored_data[3]>>),
        p2, <<stored_data[4], stored_data[5], stored_data[6]>>)

\* a variant of stored_data that keeps kind and side and takes both moved
\* flags as 1
snapshot_moved(b, p1, p2) ==
    <<At(b, p1)[1], 1, At(b, p1)[3], At(b, p2)[1], 1, At(b, p2)[3]>>

\* stored_data of check_king, is_checkmate and perft
snapshot(b, p1, p2) ==
    <<At(b, p1)[1], At(b, p1)[2], At(b, p1)[3], At(b, p2)[1], At(b, p2)[2], At(b, p2)[3]>>

\* the board that check_king leaves behind
check_king_board(b, p1, p2) == restore(update(b, p1, p2), p1, p2, snapshot(b, p1, p2))

\* the value check_king returns: is k1 attacked once p1 has moved to p2
check_king(b, k1, p1, p2, king_side) ==
    fetch_attackers(update(b, p1, p2), k1, king_side) # <<>>

\* Board.find_king: the first king of that side in row-major order, else (0, 0)
find_king(b, side) ==
    LET ks == {p \in Squares : Kind(At(b, p)) = 6 /\ Side(At(b, p)) = side}
    IN  IF ks = {} THEN <<0, 0>>
        ELSE CHOOSE p \in ks : \A q \in ks : p[1] < q[1] \/ (p[1] = q[1] /\ p[2] <= q[2])

------------------------------------------------------------------------------
(* Piece move generators *)

\* a variant of the comparison that compares the tile's piece kind with n
KindEqInt(tile, n) == Kind(tile) = n

\* list == int in Python: a list never equals an int, whatever it holds
ListEqInt(tile, n) == FALSE

\* rook_legal of gen_castling_moves
rook_legal(b, i, rook_i, rook) ==
    ListEqInt(b[i][rook_i], rook) /\ Moved(b[i][rook_i]) = 0

\* king_legal of gen_castling_moves
king_legal(b, i, king) == Kind(b[i][4]) = king /\ Moved(b[i][4]) = 0

\* check of gen_castling_moves for the current values of the loop's variables
castling_check(b, i, king_j, rook_i, rook_j, extra, kr_side) ==
    /\ fetch_attackers(b, <<i, 4>>, kr_side) = <<>>
    /\ fetch_attackers(b, <<i, king_j>>, kr_side) = <<>>
    /\ fetch_attackers(b, <<i, rook_j>>, kr_side) = <<>>
    /\ Kind(b[i][rook_j]) = 0
    /\ Kind(b[i][king_j]) = 0
    /\ extra
    /\ king_legal(b, i, 6)
    /\ rook_legal(b, i, rook_i, 4)

\* The loop runs long = 0, then long = 1.  The first pass sets king_j, rook_i,
\* rook_j, extra to 6, 7, 5, True; the second pass assigns nothing, so it tests
\* the same values (the initial 2, 0, 3, board[0][1][0] == 0 are never used).
gen_castling_moves(b, p1, kr_side) ==
    LET i == IF kr_side = 1 THEN 0 ELSE 7
        check_short == castling_check(b, i, 6, 7, 5, TRUE, kr_side)
        check_long == castling_check(b, i, 6, 7, 5, TRUE, kr_side)
    IN  (IF check_short THEN << <<i, 6>> >> ELSE <<>>)
        \o (IF check_long THEN << <<i, 2>> >> ELSE <<>>)

gen_knight_moves(b, p1, k1, piece_side) ==
    SelectSeq(Shifted(p1, KnightOffsets),
              LAMBDA p2 : OnBoard(p2)
                          /\ ~((Kind(At(b, p2)) # 0 /\ Side(At(b, p2)) = piece_side)
                               \/ check_king(b, k1, p1, p2, piece_side)))

\* a variant of gen_king_moves that hands check_king the square the king
\* leaves instead of the square it moves to
gen_king_moves_from_origin(b, p1, k1, piece_side) ==
    SelectSeq(Shifted(p1, KingOffsets),
              LAMBDA p2 : OnBoard(p2)
                          /\ ~((Kind(At(b, p2)) # 0 /\ Side(At(b, p2)) = piece_side)
                               \/ check_king(b, p1, p1, p2, piece_side)))

gen_king_moves(b, p1, k1, piece_side) ==
    SelectSeq(Shifted(p1, KingOffsets),
              LAMBDA p2 : OnBoard(p2)
                          /\ ~((Kind(At(b, p2)) # 0 /\ Side(At(b, p2)) = piece_side)
                               \/ check_king(b, p2, p1, p2, piece_side)))

\* the forward pushes of gen_pawn_moves (the loop over dist with its breaks)
pawn_pushes(b, p1, k1, piece_side) ==
    LET direct == IF piece_side = 1 THEN 1 ELSE -1
        q1 == <<p1[1] + direct, p1[2]>>
        q2 == <<p1[1] + 2 * direct, p1[2]>>
    IN  IF ~(q1[1] >= 0 /\ q1[1] <= 7) \/ Kind(At(b, q1)) # 0 THEN <<>>
        ELSE (IF ~check_king(b, k1, p1, q1, piece_side) THEN <<q1>> ELSE <<>>)
             \o (IF ~(q2[1] >= 0 /\ q2[1] <= 7)
                    \/ Kind(At(b, q2)) # 0 \/ ~(p1[1] = 1 \/ p1[1] = 6)
                 THEN <<>>
                 ELSE IF ~check_king(b, k1, p1, q2, piece_side) THEN <<q2>> ELSE <<>>)

\* the diagonal moves of gen_pawn_moves: "tile[0] == 0 or tile[2] != piece_side"
\* skips the square, so the squares kept hold a piece of the pawn's own side
pawn_diagonals(b, p1, k1, piece_side) ==
    LET direct == IF piece_side = 1 THEN 1 ELSE -1
    IN  SelectSeq(<< <<p1[1] + direct, p1[2] - 1>>, <<p1[1] + direct, p1[2] + 1>> >>,
                  LAMBDA p2 : OnBoard(p2)
                              /\ ~(Kind(At(b, p2)) = 0 \/ Side(At(b, p2)) # piece_side))

gen_pawn_moves(b, p1, k1, piece_side) ==
    pawn_pushes(b, p1, k1, piece_side) \o pawn_diagonals(b, p1, k1, piece_side)

\* p2 is (p1[0] + 1 if piece_side else -1, last_move[1][1]): for Black the row
\* is the constant -1, which indexes the last row of the board
gen_passant(b, lm, p1, k1, piece_side) ==
    IF lm = <<>> THEN <<>>
    ELSE LET p2 == <<IF piece_side = 1 THEN p1[1] + 1 ELSE -1, lm[2][2]>>
             diff(x, y) == IF x >= y THEN x - y ELSE y - x
         IN  IF \/ (piece_side = 1 /\ p1[1] # 4)
                \/ (piece_side # 1 /\ p1[1] # 3)
                \/ diff(lm[2][2], p1[2]) # 1
                \/ diff(lm[1][1], lm[2][1]) # 2
                \/ check_king(b, k1, p1, p2, piece_side)
             THEN <<>>
             ELSE <<p2>>

RECURSIVE ray_walk(_, _, _, _, _, _)
\* the inner loop of gen_ray_moves for one direction
ray_walk(b, p1, k1, piece_side, d, i) ==
    LET p2 == <<p1[1] + i * d[1], p1[2] + i * d[2]>>
    IN  IF i > 7 THEN <<>>
        ELSE IF ~OnBoard(p2) THEN ray_walk(b, p1, k1, piece_side, d, i + 1)
        ELSE LET tile == At(b, p2)
             IN  IF (Kind(tile) # 0 /\ Side(tile) = piece_side)
                    \/ check_king(b, k1, p1, p2, piece_side)
                 THEN <<>>
                 ELSE <<p2>> \o (IF Kind(tile) = 0
                                 THEN ray_walk(b, p1, k1, piece_side, d, i + 1)
                                 ELSE IF Side(tile) # piece_side THEN <<>>
                                 ELSE ray_walk(b, p1, k1, piece_side, d, i + 1))

RayComp == << <<1, 1>>, <<-1, -1>>, <<-1, 1>>, <<1, -1>>, <<0, 1>>, <<1, 0>>, <<0, -1>>,
              <<-1, 0>> >>

RECURSIVE ray_dirs(_, _, _, _, _, _)
\* the outer loop of gen_ray_moves over comp[from..to]
ray_dirs(b, p1, k1, piece_side, from, to) ==
    IF from > to THEN <<>>
    ELSE ray_walk(b, p1, k1, piece_side, RayComp[from], 1)
         \o ray_dirs(b, p1, k1, piece_side, from + 1, to)

gen_ray_moves(b, p1, k1, piece_side, toggle) ==
    IF toggle[1] /\ ~toggle[2] THEN ray_dirs(b, p1, k1, piece_side, 1, 4)
    ELSE IF ~toggle[1] /\ toggle[2] THEN ray_dirs(b, p1, k1, piece_side, 5, 8)
    ELSE ray_dirs(b, p1, k1, piece_side, 1, 8)

gen_queen_moves(b, p1, k1, piece_side) ==
    gen_ray_moves(b, p1, k1, piece_side, <<TRUE, TRUE>>)

gen_bishop_moves(b, p1, k1, piece_side) ==
    gen_ray_moves(b, p1, k1, piece_side, <<TRUE, FALSE>>)

gen_rook_moves(b, p1, k1, piece_side) ==
    gen_ray_moves(b, p1, k1, piece_side, <<FALSE, TRUE>>)

gen_all_king_moves(b, p1, k1, piece_side) ==
    gen_king_moves(b, p1, k1, piece_side) \o gen_castling_moves(b, p1, piece_side)

gen_all_pawn_moves(b, lm, p1, k1, piece_side) ==
    gen_pawn_moves(b, p1, k1, piece_side) \o gen_passant(b, lm, p1, k1, piece_side)

\* Board.fetch_moves: find_king never returns None, so "k1 is not None" holds
fetch_moves(b, lm, p1) ==
    LET tile == At(b, p1)
        k1 == find_king(b, Side(tile))
        s == Side(tile)
    IN  CASE Kind(tile) = 1 -> gen_all_pawn_moves(b, lm, p1, k1, s)
          [] Kind(tile) = 2 -> gen_knight_moves(b, p1, k1, s)
          [] Kind(tile) = 3 -> gen_bishop_moves(b, p1, k1, s)
          [] Kind(tile) = 4 -> gen_rook_moves(b, p1, k1, s)
          [] Kind(tile) = 5 -> gen_queen_moves(b, p1, k1, s)
          [] Kind(tile) = 6 -> gen_all_king_moves(b, p1, k1, s)
          [] OTHER -> <<>>

RECURSIVE moves_in_row(_, _, _, _, _)
\* the inner loop of fetch_all_moves: the moves of the pieces of side standing
\* on row i, from column j on
moves_in_row(b, lm, side, i, j) ==
    IF j > 7 THEN <<>>
    ELSE LET targets == IF Kind(b[i][j]) # 0 /\ Side(b[i][j]) = side
                        THEN fetch_moves(b, lm, <<i, j>>) ELSE <<>>
         IN  [t \in 1..Len(targets) |-> << <<i, j>>, targets[t]>>]
             \o moves_in_row(b, lm, side, i, j + 1)

RECURSIVE moves_from_row(_, _, _, _)
\* the outer loop of fetch_all_moves, from row i on
moves_from_row(b, lm, side, i) ==
    IF i > 7 THEN <<>>
    ELSE moves_in_row(b, lm, side, i, 0) \o moves_from_row(b, lm, side, i + 1)

\* Board.fetch_all_moves
fetch_all_moves(b, lm, side) == moves_from_row(b, lm, side, 0)

------------------------------------------------------------------------------
(* Game-end classifier *)

Abs(x) == IF x < 0 THEN 0 - x ELSE x

Sign(x) == IF x > 0 THEN 1 ELSE IF x < 0 THEN -1 ELSE 0

RECURSIVE blockers_from(_, _, _, _, _, _)
\* the loop "for move in range(1, dist)" of fetch_blockers, from move on
blockers_from(b, a1, dir, side, move, dist) ==
    IF move >= dist THEN <<>>
    ELSE LET m1 == <<a1[1] + move * dir[1], a1[2] + move * dir[2]>>
             attackers == fetch_attackers(b, m1, NotSide(side))
         IN  [n \in 1..Len(attackers) |-> <<attackers[n], m1>>]
             \o blockers_from(b, a1, dir, side, move + 1, dist)

\* Board.fetch_blockers: the squares are stepped from a1 in the direction
\* a1 - k1, and the pieces are those fetch_attackers(m1, not side) returns
fetch_blockers(b, a1, k1, side) ==
    LET row_diff == a1[1] - k1[1]
        col_diff == a1[2] - k1[2]
        dist == IF Abs(col_diff) = Abs(row_diff) THEN Abs(row_diff)
                ELSE IF col_diff = 0 \/ row_diff = 0 THEN Abs(row_diff) + Abs(col_diff)
                ELSE 0
    IN  blockers_from(b, a1, <<Sign(row_diff), Sign(col_diff)>>, side, 1, dist)

\* one pass of the blocker loop of is_checkmate: TRUE when the trial move
\* b1 -> b2 leaves k1 unattacked (the board is restored before the test)
blocker_relieves(b, k1, side, blocker) ==
    /\ OnBoard(blocker[1])
    /\ OnBoard(blocker[2])
    /\ fetch_attackers(update(b, blocker[1], blocker[2]), k1, side) = <<>>

\* Board.is_checkmate
is_checkmate(b, lm, a1, k1, side) ==
    LET tile_1 == At(b, k1)
        tile_2 == At(b, a1)
        defenders == fetch_attackers(b, a1, side)
        blockers == fetch_blockers(b, a1, k1, NotSide(side))
    IN  IF Kind(tile_1) # 6 \/ Side(tile_2) = Side(tile_1) \/ fetch_moves(b, lm, k1) # <<>>
        THEN FALSE
        ELSE IF \E n \in 1..Len(defenders) :
                   IF Kind(At(b, defenders[n])) = 6
                   THEN fetch_attackers(b, a1, NotSide(side)) = <<>>
                   ELSE TRUE
        THEN FALSE
        ELSE IF Kind(tile_2) = 2 THEN TRUE
        ELSE ~\E n \in 1..Len(blockers) : blocker_relieves(b, k1, side, blockers[n])

\* Board.is_stalemate: False as soon as a White piece and a Black piece have
\* both been seen with a move, True otherwise
is_stalemate(b, lm) ==
    LET has_moves(s) == \E p \in Squares :
            Kind(At(b, p)) # 0 /\ Side(At(b, p)) = s /\ fetch_moves(b, lm, p) # <<>>
    IN  ~(has_moves(1) /\ has_moves(0))

\* "for a1 in attackers: if self.is_checkmate(a1, k1, side): ..." finds a mate
any_checkmate(b, lm, attackers, k1, side) ==
    \E n \in 1..Len(attackers) : is_checkmate(b, lm, attackers[n], k1, side)

\* Board.mate_check
mate_check(b, lm) ==
    \E i \in {0, 1} :
        \E k \in {find_king(b, i)} : any_checkmate(b, lm, fetch_attackers(b, k, i), k, i)

------------------------------------------------------------------------------
(* The evaluator *)

\* the material values of Board._tables, by piece kind 1..6
material == <<100, 320, 330, 500, 900, 0>>

\* the score evaluate returns for a checkmated king
MateScore == 100000

\* The positional tables are read from piece_tables.txt, 48 rows of 8
\* integers that are not part of the source.  Two fillings of that file stand
\* for it: in filling 1 the entry of row x and column y of the table of a
\* kind is 8 * x + y + kind, in filling 2 every entry is 0.
TableFillings == {"graded", "zero"}

\* ls[8 * (kind - 1) + x][y] for a filling of the file
table_entry(filling, kind, x, y) == IF filling = "graded" THEN 8 * x + y + kind ELSE 0

\* the amount "score" changes by for the tile on (i, j): nothing for an empty
\* tile, else table[x][y] + mat, added for White and subtracted for Black
tile_count(b, filling, i, j) ==
    LET tile == b[i][j]
        x == IF Side(tile) = 1 THEN 7 - i ELSE i
        count == table_entry(filling, Kind(tile), x, j) + material[Kind(tile)]
    IN  IF Kind(tile) = 0 THEN 0
        ELSE IF Side(tile) = 1 THEN count ELSE 0 - count

RECURSIVE row_count(_, _, _, _)
\* the sum of tile_count over the tiles of row i from column j on
row_count(b, filling, i, j) ==
    IF j > 7 THEN 0 ELSE tile_count(b, filling, i, j) + row_count(b, filling, i, j + 1)

RECURSIVE rows_count(_, _, _)
\* the sum of tile_count over the rows from i on
rows_count(b, filling, i) ==
    IF i > 7 THEN 0 ELSE row_count(b, filling, i, 0) + rows_count(b, filling, i + 1)

\* the kings for which evaluate finds is_checkmate true for some attacker
mated_kings(b, lm) ==
    {k \in Squares :
        /\ Kind(At(b, k)) = 6
        /\ any_checkmate(b, lm, fetch_attackers(b, k, Side(At(b, k))), k, Side(At(b, k)))}

\* Board.evaluate: the loop returns at the first king, in row-major order,
\* that it finds checkmated, "100000 if tile[2] else -100000"; when it finds
\* none it returns the sum
evaluate(b, lm, filling) ==
    LET ks == mated_kings(b, lm)
        first == CHOOSE p \in ks : \A q \in ks : p[1] < q[1] \/ (p[1] = q[1] /\ p[2] <= q[2])
    IN  IF ks # {}
        THEN (IF Side(At(b, first)) = 1 THEN MateScore ELSE 0 - MateScore)
        ELSE rows_count(b, filling, 0)

------------------------------------------------------------------------------
(* Position signatures *)

\* display_int_alpha
display_int_alpha(piece, side) ==
    IF side = 0 THEN <<" ", "p", "n", "b", "r", "q", "k">>[piece + 1]
    ELSE <<" ", "P", "N", "B", "R", "Q", "K">>[piece + 1]

\* str(n) for the run lengths 1..8
DigitStr == <<"1", "2", "3", "4", "5", "6", "7", "8">>

RECURSIVE fen_row(_, _, _, _)
\* the inner loop of fen_from_array on one row, from column col on, with
\* blank_squares pending, and the flush and "/" that end the row
fen_row(boardstate, row, col, blank_squares) ==
    LET flush == IF blank_squares > 0 THEN <<DigitStr[blank_squares]>> ELSE <<>>
    IN  IF col > 7 THEN flush \o <<"/">>
        ELSE LET tile == boardstate[row][col]
             IN  IF Kind(tile) >= 1 /\ Kind(tile) <= 6
                 THEN flush \o <<display_int_alpha(Kind(tile), Side(tile))>>
                      \o fen_row(boardstate, row, col + 1, 0)
                 ELSE IF Kind(tile) = 0
                 THEN fen_row(boardstate, row, col + 1, blank_squares + 1)
                 ELSE fen_row(boardstate, row, col + 1, blank_squares)

\* rows are visited from the last (index -1) to the first (index -8)
fen_from_array(boardstate, side) ==
    fen_row(boardstate, 7, 0, 0) \o fen_row(boardstate, 6, 0, 0)
    \o fen_row(boardstate, 5, 0, 0) \o fen_row(boardstate, 4, 0, 0)
    \o fen_row(boardstate, 3, 0, 0) \o fen_row(boardstate, 2, 0, 0)
    \o fen_row(boardstate, 1, 0, 0) \o fen_row(boardstate, 0, 0, 0)
    \o (IF side = 0 THEN <<" ", "b", " ">> ELSE <<" ", "w", " ">>)

\* the number of entries of a list equal to x
Count(seq, x) == Cardinality({i \in 1..Len(seq) : seq[i] = x})

\* Board.is_threefold: the verdict is assigned to a local name and the method
\* ends without a return statement, so the caller receives None
is_threefold(b, t, past) ==
    LET repetitions == Count(past, fen_from_array(b, t))
        local_result == IF repetitions >= 2 THEN "Threefold" ELSE None
    IN  None

\* truth value of what is_threefold returns, as "if ... and self.is_threefold()" tests it
Truthy(v) == v # None

------------------------------------------------------------------------------
(* Input handling and move application *)

Resign == <<"r", "e", "s", "i", "g", "n">>

\* Board.set_input: the value returned and the fields it assigns.  The tuple
\* handed to all() is built eagerly: indexing move[0..3] raises IndexError on
\* a string shorter than 4, int() raises ValueError on a non-digit, and both
\* are caught and lead to "return False".
set_input(b, t, res, ci, raw) ==
    LET move == Lower(Strip(raw))
        rejected == [ret |-> "False", result |-> res, coord_input |-> ci]
    IN  IF move = Resign
        THEN [ret |-> "True",
              result |-> IF t = 1 THEN "White resigned." ELSE "Black resigned.",
              coord_input |-> <<>>]
        ELSE IF Len(move) < 4 THEN rejected
        ELSE IF ~IsDigit(move[2]) \/ ~IsDigit(move[4]) THEN rejected
        ELSE IF /\ Len(move) = 4
                /\ move[1] \in DOMAIN col_dict
                /\ move[3] \in DOMAIN col_dict
                /\ DigitMap[move[2]] \in 1..8
                /\ DigitMap[move[4]] \in 1..8
        THEN LET coords == << <<DigitMap[move[2]] - 1, col_dict[move[1]]>>,
                              <<DigitMap[move[4]] - 1, col_dict[move[3]]>> >>
                 piece_color == Side(At(b, coords[1]))
             IN  IF piece_color = t /\ res = None
                 THEN [ret |-> "True", result |-> res, coord_input |-> coords]
                 ELSE rejected
        ELSE rejected

\* a variant of the promotion prompt that leaves a pawn for any other answer
promotion_choice_pawn(answer) == IF answer \in {"q", "n", "b", "r"} THEN answer ELSE "p"

\* the promotion prompt of move_piece: anything but q, n, b, r becomes q
promotion_choice(answer) == IF answer \in {"q", "n", "b", "r"} THEN answer ELSE "q"

\* the castling block of move_piece: the rook's two squares are overwritten
castle_rook(b, t, tile_1, p1, p2) ==
    IF Kind(tile_1) = 6 /\ p1[2] = 4 /\ p2[2] \in {2, 6}
    THEN IF t = 1
         THEN IF p2[2] = 6 THEN Put(Put(b, <<0, 7>>, <<0, 1, 0>>), <<0, 5>>, <<4, 1, 1>>)
              ELSE Put(Put(b, <<0, 0>>, <<0, 1, 0>>), <<0, 3>>, <<4, 1, 1>>)
         ELSE IF p2[2] = 6 THEN Put(Put(b, <<7, 7>>, <<0, 1, 0>>), <<7, 5>>, <<4, 1, 0>>)
              ELSE Put(Put(b, <<7, 0>>, <<0, 1, 0>>), <<7, 3>>, <<4, 1, 0>>)
    ELSE b

\* a variant of the board move_piece writes in which the piece keeps the moved
\* flag it had on its origin square
moved_board_keeps_flag(b, t, p1, p2, answer) ==
    LET tile_1 == At(b, p1)
        kind_2 == IF Kind(tile_1) = 1 /\ ((t = 1 /\ p2[1] = 7) \/ (t # 1 /\ p2[1] = 0))
                  THEN piece_dict[promotion_choice(answer)]
                  ELSE Kind(tile_1)
        b2 == castle_rook(Put(b, p2, <<kind_2, Moved(tile_1), Side(tile_1)>>), t, tile_1,
                          p1, p2)
    IN  Put(b2, p1, <<0, 1, 0>>)

\* the board of move_piece once the move is written and before the king test:
\* tile_2[0] is set (promotion or the mover's kind), the castling rook is
\* moved, tile_2[1:3] becomes [1, side of the mover], the origin is emptied
moved_board(b, t, p1, p2, answer) ==
    LET tile_1 == At(b, p1)
        tile_2 == At(b, p2)
        kind_2 == IF Kind(tile_1) = 1 /\ ((t = 1 /\ p2[1] = 7) \/ (t # 1 /\ p2[1] = 0))
                  THEN piece_dict[promotion_choice(answer)]
                  ELSE Kind(tile_1)
        b1 == Put(b, p2, <<kind_2, Moved(tile_2), Side(tile_2)>>)
        b2 == castle_rook(b1, t, tile_1, p1, p2)
        b3 == Put(b2, p2, <<Kind(At(b2, p2)), 1, Side(tile_1)>>)
    IN  Put(b3, p1, <<0, 1, 0>>)

\* "for a1 in fetch_attackers(k2, not turn): if is_checkmate(...): result = ..."
checkmate_step(b, t, lm, res, k2) ==
    IF any_checkmate(b, lm, fetch_attackers(b, k2, NotSide(t)), k2, NotSide(t))
    THEN "checkmate_white" ELSE res

\* "if self.result is None and self.is_stalemate(): result = 'stalemate'"
stalemate_step(b, lm, res) ==
    IF res = None /\ is_stalemate(b, lm) THEN "stalemate" ELSE res

\* "if self.result is None and self.is_threefold(): result = 'threefold'"
threefold_step(b, t, past, res) ==
    IF res = None /\ Truthy(is_threefold(b, t, past)) THEN "threefold" ELSE res

\* the game-ending tests of move_piece, on the board after the move
end_result(b, t, lm, res, past) ==
    threefold_step(b, t, past,
        stalemate_step(b, lm, checkmate_step(b, t, lm, res, find_king(b, NotSide(t)))))

\* a variant of move_piece from the king test on that leaves the board as the
\* move wrote it when the move is backed out
move_piece_after_no_backup(b, t, lm, res, past, after) ==
    IF fetch_attackers(after, find_king(after, t), t) # <<>> \/ res # None
    THEN [ok |-> FALSE, board |-> after, turn |-> t, last_move |-> lm, result |-> res]
    ELSE [ok |-> TRUE, board |-> after, turn |-> t, last_move |-> lm,
          result |-> end_result(after, t, lm, res, past)]

\* a variant of move_piece from the king test on that backs a move out only
\* when the game is over, whatever becomes of the mover's king
move_piece_after_no_king_test(b, t, lm, res, past, after) ==
    IF res # None
    THEN [ok |-> FALSE, board |-> b, turn |-> t, last_move |-> lm, result |-> res]
    ELSE [ok |-> TRUE, board |-> after, turn |-> t, last_move |-> lm,
          result |-> end_result(after, t, lm, res, past)]

\* move_piece from the king test on: after is the board with the move written
move_piece_after(b, t, lm, res, past, after) ==
    IF fetch_attackers(after, find_king(after, t), t) # <<>> \/ res # None
    THEN [ok |-> FALSE, board |-> b, turn |-> t, last_move |-> lm, result |-> res]
    ELSE [ok |-> TRUE, board |-> after, turn |-> t, last_move |-> lm,
          result |-> end_result(after, t, lm, res, past)]

\* Board.move_piece: what it returns and the fields it leaves.  backup holds
\* a deep copy of the board, the turn and last_move as they were on entry, and
\* "self.board, self.turn, self.last_move = backup" puts those values back.
move_piece(b, t, lm, res, past, ci, answer) ==
    IF Side(At(b, ci[1])) # t
    THEN [ok |-> FALSE, board |-> b, turn |-> t, last_move |-> lm, result |-> res]
    ELSE move_piece_after(b, t, lm, res, past, moved_board(b, t, ci[1], ci[2], answer))

\* "x in list" of Python
InList(x, list) == \E n \in 1..Len(list) : list[n] = x

\* the end of execute_input: "if self.move_piece(): self.turn = not self.turn"
\* and the fall off the end of the method, which returns None
execute_tail(m) ==
    [ret |-> None, applied |-> m.ok, board |-> m.board,
     turn |-> IF m.ok THEN NotSide(m.turn) ELSE m.turn,
     last_move |-> m.last_move, result |-> m.result]

\* Board.execute_input: the method has no "return True"; after move_piece it
\* falls off its end and returns None, whether or not the move was applied
execute_input(b, t, lm, res, past, ci, answer) ==
    IF ci = <<>> \/ ~InList(ci[2], fetch_moves(b, lm, ci[1]))
    THEN [ret |-> "False", applied |-> FALSE, board |-> b, turn |-> t,
          last_move |-> lm, result |-> res]
    ELSE execute_tail(move_piece(b, t, lm, res, past, ci, answer))

\* move_piece calls input() exactly when the piece moved is a pawn that
\* reaches the last row of its side
prompts(b, t, ci) ==
    /\ ci # <<>>
    /\ Kind(At(b, ci[1])) = 1
    /\ (t = 1 /\ ci[2][1] = 7) \/ (t # 1 /\ ci[2][1] = 0)

------------------------------------------------------------------------------
(* The games played *)

\* The positions the games start from (FEN text handed to Board) and, for each,
\* the move strings tried in it.
Games == <<
    \* standard initial position: the knight shuffle that repeats it
    [fen |-> <<"r", "n", "b", "q", "k", "b", "n", "r", "/",
               "p", "p", "p", "p", "p", "p", "p", "p", "/",
               "8", "/",
               "8", "/",
               "8", "/",
               "8", "/",
               "P", "P", "P", "P", "P", "P", "P", "P", "/",
               "R", "N", "B", "Q", "K", "B", "N", "R", " ", "w">>,
     script |-> {<<"g", "1", "f", "3">>,
                 <<"g", "8", "f", "6">>,
                 <<"f", "3", "g", "1">>,
                 <<"f", "6", "g", "8">>}],
    \* back-rank mates: a2a8 by an unprotected rook, e2e8 by a rook its queen protects
    [fen |-> <<"7", "k", "/",
               "6", "p", "p", "/",
               "8", "/",
               "8", "/",
               "8", "/",
               "8", "/",
               "R", "3", "R", "3", "/",
               "2", "K", "1", "Q", "3", " ", "w">>,
     script |-> {<<"a", "2", "a", "8">>,
                 <<"e", "2", "e", "8">>,
                 <<"e", "2", "e", "7">>,
                 <<"h", "7", "h", "6">>,
                 <<"h", "8", "g", "8">>}],
    \* a pawn beside a piece of its own side, pinned on the b-file
    [fen |-> <<"1", "r", "5", "k", "/",
               "8", "/",
               "8", "/",
               "8", "/",
               "8", "/",
               "2", "N", "5", "/",
               "1", "P", "6", "/",
               "1", "K", "6", " ", "w">>,
     script |-> {<<"b", "2", "c", "3">>,
                 <<"b", "2", "b", "3">>,
                 <<"c", "3", "d", "5">>,
                 <<"b", "8", "b", "3">>,
                 <<"h", "8", "g", "8">>}],
    \* castling: both wings open for Black, the queen's wing blocked for White
    [fen |-> <<"r", "3", "k", "2", "r", "/",
               "8", "/",
               "8", "/",
               "8", "/",
               "8", "/",
               "8", "/",
               "8", "/",
               "R", "N", "2", "K", "2", "R", " ", "w">>,
     script |-> {<<"e", "1", "g", "1">>,
                 <<"e", "1", "c", "1">>,
                 <<"e", "1", "f", "1">>,
                 <<"e", "8", "g", "8">>,
                 <<"e", "8", "c", "8">>,
                 <<"e", "8", "d", "8">>,
                 <<"h", "1", "g", "1">>,
                 <<"g", "1", "h", "1">>,
                 <<"h", "8", "g", "8">>,
                 <<"b", "1", "c", "3">>}],
    \* a queen against a bare king, with a blocked pair of pawns on the h-file
    [fen |-> <<"k", "7", "/",
               "8", "/",
               "7", "p", "/",
               "8", "/",
               "7", "P", "/",
               "8", "/",
               "2", "Q", "5", "/",
               "4", "K", "3", " ", "w">>,
     script |-> {<<"c", "2", "c", "7">>,
                 <<"h", "4", "h", "5">>,
                 <<"a", "8", "b", "8">>,
                 <<"c", "2", "c", "6">>}],
    \* a check that can be answered by capturing the checking rook
    [fen |-> <<"r", "6", "k", "/",
               "6", "p", "p", "/",
               "8", "/",
               "8", "/",
               "8", "/",
               "8", "/",
               "4", "R", "3", "/",
               "2", "K", "5", " ", "w">>,
     script |-> {<<"e", "2", "e", "8">>,
                 <<"a", "8", "e", "8">>,
                 <<"e", "2", "e", "7">>,
                 <<"a", "8", "a", "1">>}],
    \* White shut in by a queen, Black to move
    [fen |-> <<"7", "k", "/",
               "8", "/",
               "7", "p", "/",
               "8", "/",
               "7", "P", "/",
               "1", "q", "6", "/",
               "8", "/",
               "K", "7", " ", "b">>,
     script |-> {<<"h", "8", "g", "8">>,
                 <<"b", "3", "b", "2">>,
                 <<"b", "3", "c", "2">>,
                 <<"a", "1", "b", "1">>}],
    \* promotions: a white pawn on a7 and a black pawn on a2
    [fen |-> <<"7", "k", "/",
               "P", "7", "/",
               "8", "/",
               "8", "/",
               "8", "/",
               "8", "/",
               "p", "7", "/",
               "7", "K", " ", "w">>,
     script |-> {<<"a", "7", "a", "8">>,
                 <<"a", "2", "a", "1">>}],
    \* a pawn beside its own king: b2c3 removes the white king
    [fen |-> <<"7", "k", "/",
               "8", "/",
               "8", "/",
               "8", "/",
               "8", "/",
               "2", "K", "5", "/",
               "1", "P", "6", "/",
               "8", " ", "w">>,
     script |-> {<<"b", "2", "c", "3">>,
                 <<"h", "8", "g", "8">>,
                 <<"c", "3", "c", "4">>,
                 <<"c", "3", "d", "3">>}],
    \* back-rank mates by Black: a7a1 by an unprotected rook, e7e1 by a protected one
    [fen |-> <<"2", "k", "1", "q", "3", "/",
               "r", "3", "r", "3", "/",
               "8", "/",
               "8", "/",
               "8", "/",
               "8", "/",
               "6", "P", "P", "/",
               "7", "K", " ", "b">>,
     script |-> {<<"a", "7", "a", "1">>,
                 <<"e", "7", "e", "1">>,
                 <<"g", "2", "g", "3">>,
                 <<"h", "1", "g", "1">>}]
>>

\* strings tried in every game: malformed ones, a bad rank and file, padding
\* and capitals, an empty origin square, and the resignation token
CommonInputs == {<<>>, <<"e", "2">>, <<"e", "2", "e", "4", "x">>, <<"e", "9", "e", "4">>,
                 <<"i", "2", "e", "4">>, <<"e", "x", "e", "4">>, <<"e", "0", "e", "1">>,
                 <<"d", "4", "d", "5">>, <<" ", "D", "4", "D", "5", " ">>,
                 Resign}

\* the answers given to the promotion prompt
PromotionAnswers == {"q", "n", "b", "r", "x"}

\* the number of moves applied in a game of the model
MaxMoves == 8

------------------------------------------------------------------------------
(* The game: construction and the two calls of the input loop *)

\* Board.__init__ on the FEN text of a game
Init ==
    /\ game \in 1..Len(Games)
    /\ board = array_from_fen(Games[game].fen)[1]
    /\ turn = array_from_fen(Games[game].fen)[2]
    /\ half_moves = 0
    /\ past_states = <<>>
    /\ result = None
    /\ coord_input = <<>>
    /\ last_move = <<>>
    /\ last_op = "init"
    /\ last_arg = <<>>
    /\ last_ret = None
    /\ last_applied = FALSE
    /\ applied = 0
    /\ hist = <<fen_from_array(array_from_fen(Games[game].fen)[1],
                               array_from_fen(Games[game].fen)[2])>>
    /\ sim = <<>>

\* a call of set_input with the string raw
SetInput(raw) ==
    \E r \in {set_input(board, turn, result, coord_input, raw)} :
        /\ sim = <<>>
        /\ result' = r.result
        /\ coord_input' = r.coord_input
        /\ last_op' = "set_input"
        /\ last_arg' = raw
        /\ last_ret' = r.ret
        /\ last_applied' = FALSE
        /\ UNCHANGED <<board, turn, half_moves, past_states, last_move, game, applied,
                       hist, sim>>

\* a call of execute_input; answer is what the promotion prompt would receive
ExecuteInput(answer) ==
    \E r \in {execute_input(board, turn, last_move, result, past_states, coord_input,
                            answer)} :
        /\ sim = <<>>
        /\ applied < MaxMoves
        /\ answer = "q" \/ prompts(board, turn, coord_input)
        /\ board' = r.board
        /\ turn' = r.turn
        /\ last_move' = r.last_move
        /\ result' = r.result
        /\ last_op' = "execute_input"
        /\ last_arg' = <<answer>>
        /\ last_ret' = r.ret
        /\ last_applied' = r.applied
        /\ applied' = IF r.applied THEN applied + 1 ELSE applied
        /\ hist' = IF r.applied THEN Append(hist, fen_from_array(r.board, r.turn)) ELSE hist
        /\ UNCHANGED <<half_moves, past_states, coord_input, game, sim>>

Next ==
    \/ \E raw \in Games[game].script \cup CommonInputs : SetInput(raw)
    \/ \E answer \in PromotionAnswers : ExecuteInput(answer)

Spec == Init /\ [][Next]_vars

------------------------------------------------------------------------------
(* The traversal: plies of perft and calls of the legality filter *)

\* the number of nested plies of perft the model enters (the source nests 4)
MaxPlies == 1

\* the squares the legality filter is called on: the two kings' squares and
\* the squares the enclosing plies have written
ProbeSquares ==
    {find_king(board, 0), find_king(board, 1)}
    \cup {sim[n][1] : n \in 1..Len(sim)} \cup {sim[n][2] : n \in 1..Len(sim)}

\* the side whose moves the ply at this depth of perft(board, turn) makes
PlySide == IF Len(sim) % 2 = 0 THEN turn ELSE NotSide(turn)

\* one pass of a loop of perft down to "board.update(p1, p2)", with at most
\* depth loops nested: a move of fetch_all_moves is taken, stored_data is
\* kept and the move is made; an inner loop is entered only
\* "if not board.mate_check()"
PerftPly(depth) ==
    /\ Len(sim) < depth
    /\ sim # <<>> => ~mate_check(board, last_move)
    /\ \E moves \in {fetch_all_moves(board, last_move, PlySide)} :
         \E n \in 1..Len(moves) :
            /\ sim' = Append(sim, <<moves[n][1], moves[n][2],
                                    snapshot(board, moves[n][1], moves[n][2])>>)
            /\ board' = update(board, moves[n][1], moves[n][2])
    /\ last_op' = "perft_apply"
    /\ last_arg' = <<>>
    /\ last_ret' = None
    /\ last_applied' = FALSE
    /\ UNCHANGED <<turn, half_moves, past_states, result, coord_input, last_move, game,
                   applied, hist>>

\* a pass of the loops of perft the model enters beside the legality filter
PerftApply == PerftPly(MaxPlies)

\* the end of that pass: the two squares are written back from stored_data
PerftRestore ==
    /\ sim # <<>>
    /\ board' = restore(board, sim[Len(sim)][1], sim[Len(sim)][2], sim[Len(sim)][3])
    /\ sim' = SubSeq(sim, 1, Len(sim) - 1)
    /\ last_op' = "perft_restore"
    /\ last_arg' = <<>>
    /\ last_ret' = None
    /\ last_applied' = FALSE
    /\ UNCHANGED <<turn, half_moves, past_states, result, coord_input, last_move, game,
                   applied, hist>>

\* a call of check_king, at the top level or inside a ply of perft
CheckKing(k1, p1, p2, king_side) ==
    /\ board' = check_king_board(board, p1, p2)
    /\ last_op' = "check_king"
    /\ last_arg' = <<p1, p2>>
    /\ last_ret' = IF check_king(board, k1, p1, p2, king_side) THEN "True" ELSE "False"
    /\ last_applied' = FALSE
    /\ UNCHANGED <<turn, half_moves, past_states, result, coord_input, last_move, game,
                   applied, hist, sim>>

NextSim ==
    \/ PerftApply
    \/ PerftRestore
    \/ \E p1 \in ProbeSquares, p2 \in ProbeSquares, king_side \in {0, 1} :
          \E k1 \in {find_king(board, king_side), p2} : CheckKing(k1, p1, p2, king_side)

SpecSim == Init /\ [][NextSim]_vars

------------------------------------------------------------------------------
(* The rules of chess the properties are stated against *)

\* p is a square holding a piece of side s
Holds(b, p, s) == Kind(At(b, p)) # 0 /\ Side(At(b, p)) = s

\* each side has exactly one king
OneKingEach(b) ==
    \A s \in {0, 1} : Cardinality({p \in Squares : Kind(At(b, p)) = 6 /\ Holds(b, p, s)}) = 1

\* the square of s's king is attacked by the other side
InCheck(b, s) == fetch_attackers(b, find_king(b, s), s) # <<>>

\* q is reached from p along direction d over empty squares only
ClearRay(b, p, q, d) ==
    \E i \in 1..7 :
        /\ q = <<p[1] + i * d[1], p[2] + i * d[2]>>
        /\ \A j \in 1..(i - 1) : Kind(At(b, <<p[1] + j * d[1], p[2] + j * d[2]>>)) = 0

Diagonals == {<<1, 1>>, <<1, -1>>, <<-1, 1>>, <<-1, -1>>}

Orthogonals == {<<0, 1>>, <<1, 0>>, <<0, -1>>, <<-1, 0>>}

\* the squares the piece at p may move to by its movement pattern and the
\* occupancy of the board (castling and en passant apart), whatever becomes
\* of its king
PatternTargets(b, p) ==
    LET k == Kind(At(b, p))
        s == Side(At(b, p))
        fwd == IF s = 1 THEN 1 ELSE -1
        home == IF s = 1 THEN 1 ELSE 6
        free(q) == Kind(At(b, q)) = 0 \/ Side(At(b, q)) # s
        dirs == CASE k = 3 -> Diagonals
                  [] k = 4 -> Orthogonals
                  [] OTHER -> Diagonals \cup Orthogonals
    IN  CASE k = 1 ->
               {q \in Squares : q = <<p[1] + fwd, p[2]>> /\ Kind(At(b, q)) = 0}
               \cup {q \in Squares : /\ p[1] = home
                                     /\ q = <<p[1] + 2 * fwd, p[2]>>
                                     /\ Kind(At(b, q)) = 0
                                     /\ Kind(At(b, <<p[1] + fwd, p[2]>>)) = 0}
               \cup {q \in Squares : /\ q[1] = p[1] + fwd
                                     /\ q[2] \in {p[2] - 1, p[2] + 1}
                                     /\ Holds(b, q, NotSide(s))}
          [] k = 2 ->
               {q \in Squares : /\ <<Abs(q[1] - p[1]), Abs(q[2] - p[2])>> \in {<<1, 2>>, <<2, 1>>}
                                /\ free(q)}
          [] k \in {3, 4, 5} ->
               {q \in Squares : free(q) /\ \E d \in dirs : ClearRay(b, p, q, d)}
          [] k = 6 ->
               {q \in Squares : /\ q # p
                                /\ Abs(q[1] - p[1]) <= 1
                                /\ Abs(q[2] - p[2]) <= 1
                                /\ free(q)}
          [] OTHER -> {}

\* the legal moves of side s: pattern moves after which s's king is not attacked
LegalMoves(b, s) ==
    {m \in Squares \X Squares :
        /\ Holds(b, m[1], s)
        /\ m[2] \in PatternTargets(b, m[1])
        /\ ~InCheck(update(b, m[1], m[2]), s)}

------------------------------------------------------------------------------
(* C1 *)

\* C1: legality soundness of the generator.  In every position with one king
\* per side, for each side s and each (origin, destination) pair that
\* fetch_all_moves(s) returns, s's king is not attacked once the move's
\* occupancy effect is applied.
C1_LegalitySoundness ==
    OneKingEach(board) =>
        \A s \in {0, 1} :
            \A moves \in {fetch_all_moves(board, last_move, s)} :
                \A n \in 1..Len(moves) :
                    ~InCheck(update(board, moves[n][1], moves[n][2]), s)


------------------------------------------------------------------------------
(* C2 *)

\* side s, whose king is on the board, is classified as checkmated: is_checkmate
\* answers true for some attacker of its king
Classified(b, lm, s) ==
    \E k \in {find_king(b, s)} :
        any_checkmate(b, lm, fetch_attackers(b, k, s), k, s)

\* C2: checkmate equivalence.  In every position, each side s whose king is
\* on the board is classified as checkmated if and only if its king is
\* attacked and s has no legal move at all.
C2_CheckmateEquivalence ==
    OneKingEach(board) =>
        \A s \in {0, 1} :
            Classified(board, last_move, s)
                <=> (InCheck(board, s) /\ LegalMoves(board, s) = {})

------------------------------------------------------------------------------
(* C3 *)

\* C3: stalemate equivalence.  After an accepted move, result is the
\* stalemate value exactly when the side now to move has no legal move and
\* its king is not attacked.
C3_StalemateEquivalence ==
    (last_op = "execute_input" /\ last_applied /\ OneKingEach(board)) =>
        ((result = "stalemate")
            <=> (LegalMoves(board, turn) = {} /\ ~InCheck(board, turn)))


------------------------------------------------------------------------------
(* C4 *)

\* C4: make/unmake identity of the legality filter.  Every call of
\* check_king(k1, p1, p2, side), p1 = p2 included, returns with all 64 squares
\* (kind, moved flag, side) as they were before the call and with turn, result
\* and last_move unchanged; when a ply of perft has the board modified, that
\* modification and its stored_data are what remains after the call.
C4_CheckKingIdentity ==
    [][last_op' = "check_king" =>
          /\ board' = board
          /\ turn' = turn
          /\ result' = result
          /\ last_move' = last_move
          /\ sim' = sim]_vars

\* check_king has answered True for a capture probed inside a ply of perft
C4_Witness ==
    /\ last_op = "check_king"
    /\ last_ret = "True"
    /\ sim # <<>>
    /\ last_arg[1] # last_arg[2]
    /\ Kind(At(board, last_arg[1])) # 0
    /\ Kind(At(board, last_arg[2])) # 0

\* check_king has been called with p1 = p2 on an occupied square
C4_WitnessSameSquare ==
    /\ last_op = "check_king"
    /\ last_arg[1] = last_arg[2]
    /\ Kind(At(board, last_arg[1])) # 0


------------------------------------------------------------------------------
(* C5 *)

\* C5: threefold repetition.  hist is the ordered history of the signatures
\* (board occupancy plus side to move) of the positions of the game.  After an
\* accepted move, result is the threefold value when the signature of the
\* position reached occurs in the history for the third time, and is not
\* when it occurs only twice.
C5_Threefold ==
    (last_op = "execute_input" /\ last_applied) =>
        /\ Count(hist, hist[Len(hist)]) >= 3 => result = "threefold"
        /\ Count(hist, hist[Len(hist)]) = 2 => result # "threefold"

------------------------------------------------------------------------------
(* C6 *)

\* C6: result is terminal.  Once result is set, no call of set_input or
\* execute_input, whatever the input string ('resign' included), changes
\* result, the board or turn.
C6_ResultTerminal ==
    [][result # None => (result' = result /\ board' = board /\ turn' = turn)]_vars

------------------------------------------------------------------------------
(* C7 *)

\* C7: rejections do not mutate.  A call of set_input that returns False
\* leaves board, turn, result and the pending input unchanged; a call of
\* execute_input that applies no move (no pending input, destination not in
\* fetch_moves(origin), or move_piece backs the move out) leaves board, turn,
\* result and last_move unchanged.
C7_RejectionsDoNotMutate ==
    [][/\ (last_op' = "set_input" /\ last_ret' = "False")
            => UNCHANGED <<board, turn, result, coord_input>>
       /\ (last_op' = "execute_input" /\ ~last_applied')
            => UNCHANGED <<board, turn, result, last_move>>]_vars

\* execute_input found the destination in fetch_moves(origin), and move_piece
\* backed the move out because it leaves the mover's king attacked
C7_Witness ==
    /\ last_op = "execute_input"
    /\ ~last_applied
    /\ result = None
    /\ coord_input # <<>>
    /\ InList(coord_input[2], fetch_moves(board, last_move, coord_input[1]))
    /\ InCheck(update(board, coord_input[1], coord_input[2]), turn)

------------------------------------------------------------------------------
(* C8 *)

\* C8: input validation.  For a non-resign string, set_input returns True and
\* stores the coordinate pair only if the string has length 4, both file
\* characters are in a..h, both rank digits are in 1..8, the game is in
\* progress, and the origin square holds a piece of the side to move, for
\* White to move and for Black to move alike.
C8_InputValidation ==
    (last_op = "set_input" /\ last_ret = "True" /\ Lower(Strip(last_arg)) # Resign) =>
        \E move \in {Lower(Strip(last_arg))} :
            /\ Len(move) = 4
            /\ move[1] \in {"a", "b", "c", "d", "e", "f", "g", "h"}
            /\ move[3] \in {"a", "b", "c", "d", "e", "f", "g", "h"}
            /\ move[2] \in {"1", "2", "3", "4", "5", "6", "7", "8"}
            /\ move[4] \in {"1", "2", "3", "4", "5", "6", "7", "8"}
            /\ result = None
            /\ coord_input # <<>>
            /\ Holds(board, coord_input[1], turn)


------------------------------------------------------------------------------
(* C9 and C10 *)

\* the home row of side s
HomeRow(s) == IF s = 1 THEN 0 ELSE 7

\* the king of side s on its e-file home square and its rook on the home
\* square of file rook_j are both unmoved
Unmoved(b, s, rook_j) ==
    /\ At(b, <<HomeRow(s), 4>>) = <<6, 0, s>>
    /\ At(b, <<HomeRow(s), rook_j>>) = <<4, 0, s>>

\* every square of s's home row on the files of cols is empty
EmptyOn(b, s, cols) == \A j \in cols : Kind(At(b, <<HomeRow(s), j>>)) = 0

\* no square of s's home row on the files of cols is attacked by the opponent
SafeOn(b, s, cols) == \A j \in cols : fetch_attackers(b, <<HomeRow(s), j>>, s) = <<>>

\* the conditions of castling on the h-file side and on the a-file side
KingsideOK(b, s) == Unmoved(b, s, 7) /\ EmptyOn(b, s, {5, 6}) /\ SafeOn(b, s, {4, 5, 6})

QueensideOK(b, s) == Unmoved(b, s, 0) /\ EmptyOn(b, s, {1, 2, 3}) /\ SafeOn(b, s, {4, 3, 2})

\* fetch_moves of the square of s's king contains the square of file j of s's
\* home row, and that square is not a king's step away
CastlingOffered(b, lm, s, j) ==
    \E k \in {find_king(b, s)} :
        /\ At(b, k)[1] = 6
        /\ At(b, k)[3] = s
        /\ InList(<<HomeRow(s), j>>, fetch_moves(b, lm, k))
        /\ (Abs(k[1] - HomeRow(s)) > 1 \/ Abs(k[2] - j) > 1)

\* C9: castling is offered only under its conditions.  In every position and
\* for each side, fetch_moves of the king contains the g-file castling
\* destination only if the kingside conditions hold, and the c-file
\* destination only if the queenside conditions hold.
C9_CastlingOnlyIf ==
    \A s \in {0, 1} :
        /\ CastlingOffered(board, last_move, s, 6) => KingsideOK(board, s)
        /\ CastlingOffered(board, last_move, s, 2) => QueensideOK(board, s)

\* the side to move has king and h-file rook unmoved with f and g empty, the
\* g square is attacked, and fetch_moves of the king does not hold the g square
C9_Witness ==
    /\ Unmoved(board, turn, 7)
    /\ EmptyOn(board, turn, {5, 6})
    /\ ~SafeOn(board, turn, {6})
    /\ ~InList(<<HomeRow(turn), 6>>, fetch_moves(board, last_move, <<HomeRow(turn), 4>>))

\* C10: castling is available when its conditions hold.  In every position
\* and for each side, when the kingside (resp. queenside) conditions hold,
\* fetch_moves of the king's square contains the g-file (resp. c-file) square
\* of the home row.
C10_CastlingIf ==
    \A s \in {0, 1} :
        /\ KingsideOK(board, s)
             => InList(<<HomeRow(s), 6>>, fetch_moves(board, last_move, <<HomeRow(s), 4>>))
        /\ QueensideOK(board, s)
             => InList(<<HomeRow(s), 2>>, fetch_moves(board, last_move, <<HomeRow(s), 4>>))


------------------------------------------------------------------------------
(* En passant: gen_passant on positions with a recorded last move *)

\* the positions gen_passant is called in
PassantPositions == <<
    \* a white pawn on e5 beside a black pawn on d5
    <<"7", "k", "/",
      "8", "/",
      "8", "/",
      "3", "p", "P", "3", "/",
      "8", "/",
      "8", "/",
      "8", "/",
      "4", "K", "3", " ", "w">>,
    \* a black pawn on d4 beside a white pawn on e4
    <<"7", "k", "/",
      "8", "/",
      "8", "/",
      "8", "/",
      "3", "p", "P", "3", "/",
      "8", "/",
      "8", "/",
      "4", "K", "3", " ", "b">>,
    \* white pawns on c5 and e5 on both sides of a black pawn on d5
    <<"7", "k", "/",
      "8", "/",
      "8", "/",
      "2", "P", "p", "P", "3", "/",
      "8", "/",
      "8", "/",
      "8", "/",
      "4", "K", "3", " ", "w">>,
    \* the white pawn on e5 shields its king from the rook on e8
    <<"4", "r", "2", "k", "/",
      "8", "/",
      "8", "/",
      "3", "p", "P", "3", "/",
      "8", "/",
      "8", "/",
      "8", "/",
      "4", "K", "3", " ", "w">>,
    \* a white pawn on b5 beside a black rook on a5
    <<"7", "k", "/",
      "8", "/",
      "8", "/",
      "r", "P", "6", "/",
      "8", "/",
      "8", "/",
      "8", "/",
      "4", "K", "3", " ", "w">>,
    \* a black pawn on g4 beside a white knight on f4
    <<"7", "k", "/",
      "8", "/",
      "8", "/",
      "8", "/",
      "5", "N", "p", "1", "/",
      "8", "/",
      "8", "/",
      "4", "K", "3", " ", "b">>
>>

\* the last moves recorded for a position b with side t to move: none, or a
\* move without capture of the side that is not to move, from a square now
\* empty to the square its piece stands on
LastMoves(b, t) ==
    {<<>>} \cup
    {m \in Squares \X Squares :
        /\ Kind(At(b, m[1])) = 0
        /\ Holds(b, m[2], NotSide(t))
        /\ m[2] \in PatternTargets(Put(Put(b, m[1], <<Kind(At(b, m[2])), 0, NotSide(t)>>),
                                      m[2], <<0, 0, 0>>), m[1])}

\* a Board on one of the positions, with last_move assigned
InitPassant ==
    /\ game \in 1..Len(PassantPositions)
    /\ board = array_from_fen(PassantPositions[game])[1]
    /\ turn = array_from_fen(PassantPositions[game])[2]
    /\ last_move \in LastMoves(array_from_fen(PassantPositions[game])[1],
                               array_from_fen(PassantPositions[game])[2])
    /\ half_moves = 0
    /\ past_states = <<>>
    /\ result = None
    /\ coord_input = <<>>
    /\ last_op = "init"
    /\ last_arg = <<>>
    /\ last_ret = None
    /\ last_applied = FALSE
    /\ applied = 0
    /\ hist = <<>>
    /\ sim = <<>>

\* the square gen_passant hands to check_king as the destination
passant_p2(lm, p1, piece_side) == <<IF piece_side = 1 THEN p1[1] + 1 ELSE -1, lm[2][2]>>

\* a call of gen_passant for the pawn at p1, as fetch_moves makes it; last_arg
\* becomes p1 followed by the list returned
GenPassant(p1) ==
    /\ Kind(At(board, p1)) = 1
    /\ board' = IF last_move = <<>> THEN board
                ELSE check_king_board(board, p1,
                                      passant_p2(last_move, p1, Side(At(board, p1))))
    /\ last_op' = "gen_passant"
    /\ last_arg' = <<p1>> \o gen_passant(board, last_move, p1,
                                         find_king(board, Side(At(board, p1))),
                                         Side(At(board, p1)))
    /\ last_ret' = None
    /\ last_applied' = FALSE
    /\ UNCHANGED <<turn, half_moves, past_states, result, coord_input, last_move, game,
                   applied, hist, sim>>

NextPassant == \E p1 \in Squares : GenPassant(p1)

SpecPassant == InitPassant /\ [][NextPassant]_vars

\* the pawn that the recorded last move advanced two rows stands beside p1,
\* and it is a pawn of the side opposite to the pawn on p1
PassantCase(b, lm, p1) ==
    /\ lm # <<>>
    /\ At(b, lm[2])[1] = 1
    /\ At(b, lm[2])[3] = NotSide(Side(At(b, p1)))
    /\ lm[1][2] = lm[2][2]
    /\ Abs(lm[1][1] - lm[2][1]) = 2
    /\ lm[2][1] = p1[1]
    /\ Abs(lm[2][2] - p1[2]) = 1
    /\ p1[1] = (IF Side(At(b, p1)) = 1 THEN 4 ELSE 3)

------------------------------------------------------------------------------
(* C12 *)

\* the last row of side s
LastRow(s) == IF s = 1 THEN 7 ELSE 0

\* no pawn stands on the last row of its side
NoPawnOnLastRow(b) ==
    \A p \in Squares : Kind(At(b, p)) = 1 => p[1] # LastRow(Side(At(b, p)))

\* C12: promotion.  When execute_input applies a move of a pawn to the last
\* row of its side, the destination afterwards holds a queen, knight, bishop
\* or rook of the mover's side as the answer q / n / b / r says, and a queen
\* for any other answer; and after every step no pawn stands on its last row.
C12_Promotion ==
    [][/\ (/\ last_op' = "execute_input"
           /\ last_applied'
           /\ Kind(At(board, coord_input[1])) = 1
           /\ coord_input[2][1] = LastRow(turn))
          => At(board', coord_input[2])
               = <<CASE last_arg'[1] = "n" -> 2
                     [] last_arg'[1] = "b" -> 3
                     [] last_arg'[1] = "r" -> 4
                     [] OTHER -> 5,
                   1, turn>>
       /\ NoPawnOnLastRow(board')]_vars

\* a black pawn has just been promoted on an answer that is none of q, n, b, r
C12_Witness ==
    /\ last_op = "execute_input"
    /\ last_applied
    /\ last_arg = <<"x">>
    /\ turn = 1
    /\ coord_input[2][1] = 0
    /\ At(board, coord_input[2]) = <<5, 1, 0>>


------------------------------------------------------------------------------
(* C13 *)

\* side s has no king on the board
NoKing(b, s) == \A p \in Squares : ~(Kind(At(b, p)) = 6 /\ Side(At(b, p)) = s)

\* C13: a missing king means no moves.  In every position, for a side that
\* has no king on the board, fetch_moves of every piece of that side is the
\* empty list.
C13_MissingKingNoMoves ==
    \A s \in {0, 1} :
        NoKing(board, s) =>
            \A p \in Squares :
                Holds(board, p, s) => fetch_moves(board, last_move, p) = <<>>


------------------------------------------------------------------------------
(* C14 *)

\* the piece on p attacks the square q: a king beside q, a pawn one row from
\* q toward its own home side on an adjacent file, a knight a jump away, or a
\* bishop, rook or queen with nothing between it and q on one of its lines
Attacks(b, p, q) ==
    LET k == Kind(At(b, p))
        dr == q[1] - p[1]
        dc == q[2] - p[2]
    IN  CASE k = 6 -> p # q /\ Abs(dr) <= 1 /\ Abs(dc) <= 1
          [] k = 1 -> dr = (IF Side(At(b, p)) = 1 THEN 1 ELSE -1) /\ Abs(dc) = 1
          [] k = 2 -> <<Abs(dr), Abs(dc)>> \in {<<1, 2>>, <<2, 1>>}
          [] k = 3 -> Abs(dr) = Abs(dc) /\ p # q /\ ClearRay(b, p, q, <<Sign(dr), Sign(dc)>>)
          [] k = 4 -> (dr = 0 \/ dc = 0) /\ p # q
                      /\ ClearRay(b, p, q, <<Sign(dr), Sign(dc)>>)
          [] k = 5 -> (Abs(dr) = Abs(dc) \/ dr = 0 \/ dc = 0) /\ p # q
                      /\ ClearRay(b, p, q, <<Sign(dr), Sign(dc)>>)
          [] OTHER -> FALSE

\* the squares holding a piece of the side opposite to s that attacks q
Attackers(b, q, s) == {p \in Squares : Holds(b, p, NotSide(s)) /\ Attacks(b, p, q)}

\* C14: the attack detector is exact.  For every board, square q and side s,
\* fetch_attackers(q, s) lists, each once, exactly the squares holding a piece
\* of the side opposite to s that attacks q.
C14_AttackDetector ==
    \A q \in Squares, s \in {0, 1} :
        \E found \in {fetch_attackers(board, q, s)} :
            /\ {found[n] : n \in 1..Len(found)} = Attackers(board, q, s)
            /\ Cardinality({found[n] : n \in 1..Len(found)}) = Len(found)


\* the boards the detector is examined on: the starting positions of the
\* games and the boards one ply of perft leaves while it is inside its loop
NextAttack == PerftApply \/ PerftRestore

SpecAttack == Init /\ [][NextAttack]_vars

\* inside a ply of perft, a square is attacked by a pawn, a square by a
\* knight and a square by a queen or rook of the same side
C14_Witness ==
    /\ sim # <<>>
    /\ \E s \in {0, 1} :
          /\ \E q \in Squares : \E p \in Attackers(board, q, s) : Kind(At(board, p)) = 1
          /\ \E q \in Squares : \E p \in Attackers(board, q, s) : Kind(At(board, p)) = 2
          /\ \E q \in Squares : \E p \in Attackers(board, q, s) : Kind(At(board, p)) \in {4, 5}


------------------------------------------------------------------------------
(* C15 and C16 *)

\* side s is checkmated: its king is attacked and it has no legal move
Checkmated(b, s) == InCheck(b, s) /\ LegalMoves(b, s) = {}

\* the sum of f over the squares of the set ps
RECURSIVE SumOver(_, _, _)
SumOver(b, filling, ps) ==
    IF ps = {} THEN 0
    ELSE LET p == CHOOSE x \in ps : TRUE
             tile == At(b, p)
             term == IF Side(tile) = 1
                     THEN table_entry(filling, Kind(tile), 7 - p[1], p[2]) + material[Kind(tile)]
                     ELSE 0 - (table_entry(filling, Kind(tile), p[1], p[2])
                               + material[Kind(tile)])
         IN  term + SumOver(b, filling, ps \ {p})

\* material and position of White's pieces minus those of Black's pieces
StaticScore(b, filling) == SumOver(b, filling, {p \in Squares : Kind(At(b, p)) # 0})

\* C15: static score.  In every position with one king per side in which no
\* king is checkmated, evaluate() is the sum over White's pieces of
\* table[kind][7 - row][file] + material[kind] minus the sum over Black's
\* pieces of table[kind][row][file] + material[kind].
C15_StaticScore ==
    (OneKingEach(board) /\ ~Checkmated(board, 0) /\ ~Checkmated(board, 1)) =>
        \A filling \in TableFillings :
            evaluate(board, last_move, filling) = StaticScore(board, filling)

\* C16: mate score.  In every position with one king per side in which a
\* king is checkmated, evaluate() is +100000 when it is Black's king and
\* -100000 when it is White's king.
C16_MateScore ==
    OneKingEach(board) =>
        \A filling \in TableFillings :
            /\ Checkmated(board, 0) => evaluate(board, last_move, filling) = 100000
            /\ Checkmated(board, 1) => evaluate(board, last_move, filling) = -100000


------------------------------------------------------------------------------
(* perft: four nested plies *)

\* the number of loops perft nests
PerftDepth == 4

\* the positions perft is called on
PerftPositions == <<
    \* king and pawn against king
    <<"7", "k", "/",
      "8", "/",
      "8", "/",
      "8", "/",
      "8", "/",
      "2", "K", "5", "/",
      "1", "P", "6", "/",
      "8", " ", "w">>,
    \* a rook that mates on a8 in one move
    <<"7", "k", "/",
      "6", "p", "p", "/",
      "8", "/",
      "8", "/",
      "8", "/",
      "8", "/",
      "R", "7", "/",
      "K", "7", " ", "w">>
>>

\* a Board on one of the positions, before perft(board, board.turn)
InitPerft ==
    /\ game \in 1..Len(PerftPositions)
    /\ board = array_from_fen(PerftPositions[game])[1]
    /\ turn = array_from_fen(PerftPositions[game])[2]
    /\ half_moves = 0
    /\ past_states = <<>>
    /\ result = None
    /\ coord_input = <<>>
    /\ last_move = <<>>
    /\ last_op = "init"
    /\ last_arg = <<>>
    /\ last_ret = None
    /\ last_applied = FALSE
    /\ applied = 0
    /\ hist = <<>>
    /\ sim = <<>>

\* a pass of one of the four loops of perft
PerftDescend == PerftPly(PerftDepth)

NextPerft == PerftDescend \/ PerftRestore

SpecPerft == InitPerft /\ [][NextPerft]_vars

RECURSIVE Replayed(_, _, _)
\* the board b with the moves of the plies n.. of the stack made on it
Replayed(b, stack, n) ==
    IF n > Len(stack) THEN b
    ELSE Replayed(update(b, stack[n][1], stack[n][2]), stack, n + 1)

\* C17: perft leaves the position untouched.  At every point of perft the
\* board is the starting board with the moves of the plies still open made
\* on it, so each ply has restored exactly the two squares it changed before
\* the enclosing ply continues, and outside all plies every square (kind,
\* moved flag, side), turn and result are as they were before the call.
C17_PerftRestores ==
    /\ board = Replayed(array_from_fen(PerftPositions[game])[1], sim, 1)
    /\ turn = array_from_fen(PerftPositions[game])[2]
    /\ result = None

\* the innermost of the four plies has been restored
C17_Witness ==
    /\ last_op = "perft_restore"
    /\ Len(sim) = 3

\* a ply stands on a position with a mate, for which perft enters no inner loop
C17_WitnessPruned ==
    /\ last_op = "perft_apply"
    /\ Len(sim) < PerftDepth
    /\ mate_check(board, last_move)


------------------------------------------------------------------------------
(* C18, C19 and C20 *)

\* C18: the checkmate result identifies the side.  When an accepted move has
\* checkmated the side now to move and result records a checkmate, result is
\* the value for a mate by White exactly when White made the move.
C18_CheckmateSide ==
    (/\ last_op = "execute_input"
     /\ last_applied
     /\ OneKingEach(board)
     /\ Checkmated(board, turn)
     /\ result \notin {None, "stalemate", "threefold"})
        => ((result = "checkmate_white") <=> (NotSide(turn) = 1))

\* C19: last-move tracking.  After every move applied by execute_input,
\* last_move is the (origin, destination) pair of that move, and once a move
\* has been applied it is never None.
C19_LastMove ==
    /\ (last_op = "execute_input" /\ last_applied) => last_move = coord_input
    /\ applied > 0 => last_move # <<>>

\* C20: half-move counter.  At every point of a game half_moves is the number
\* of moves execute_input has applied since the Board was constructed.
C20_HalfMoves == half_moves = applied


------------------------------------------------------------------------------
(* C21: the value execute_input returns *)

\* C21: execute_input reports its outcome as a boolean.  A call returns True
\* exactly when it applied the pending move and False exactly when it applied
\* nothing.
C21_ExecuteReturnsBoolean ==
    last_op = "execute_input" =>
        /\ last_ret \in {"True", "False"}
        /\ last_ret = "True" <=> last_applied


------------------------------------------------------------------------------
(* C22: pawn captures *)

\* the two squares diagonally forward of a pawn of side s at p1
DiagonalForward(p1, s) ==
    {<<p1[1] + (IF s = 1 THEN 1 ELSE -1), p1[2] - 1>>,
     <<p1[1] + (IF s = 1 THEN 1 ELSE -1), p1[2] + 1>>}

\* the squares of a list of squares
Range(list) == {list[n] : n \in 1..Len(list)}

\* C22: pawn captures.  With one king per side, for every pawn of side s at
\* p1, gen_pawn_moves returns a diagonal-forward square if and only if the
\* square is on the board, holds a piece of the other side, and the capture
\* does not leave s's king attacked; it returns no square held by s.
C22_PawnCaptures ==
    OneKingEach(board) =>
        \A p1 \in Squares :
            Kind(At(board, p1)) = 1 =>
                \A s \in {Side(At(board, p1))} :
                    \A out \in {Range(gen_pawn_moves(board, p1, find_king(board, s), s))} :
                        /\ \A q \in DiagonalForward(p1, s) :
                              q \in out <=> /\ OnBoard(q)
                                            /\ Holds(board, q, NotSide(s))
                                            /\ ~InCheck(update(board, p1, q), s)
                        /\ \A q \in out : ~Holds(board, q, s)


------------------------------------------------------------------------------
(* C23: sliding pieces *)

\* the toggle fetch_moves hands to gen_ray_moves for a bishop, rook or queen
ToggleOf(kind) ==
    CASE kind = 3 -> <<TRUE, FALSE>> [] kind = 4 -> <<FALSE, TRUE>> [] OTHER -> <<TRUE, TRUE>>

\* the destinations of the piece at p1, of side s, that follow its movement
\* pattern and leave s's king unattacked
SafeTargets(b, p1, s) ==
    {q \in PatternTargets(b, p1) : ~InCheck(update(b, p1, q), s)}

\* C23: sliding-piece generation is exact.  With one king per side, for every
\* bishop, rook or queen of side s at p1, gen_ray_moves returns exactly the
\* squares on the piece's rays, up to the first occupied square (included when
\* it holds an enemy piece), whose move leaves s's king unattacked; a square
\* that blocks or captures a checking piece is returned even if nearer squares
\* of the ray are not.
C23_SlidingExact ==
    OneKingEach(board) =>
        \A p1 \in Squares :
            Kind(At(board, p1)) \in {3, 4, 5} =>
                \A s \in {Side(At(board, p1))} :
                    Range(gen_ray_moves(board, p1, find_king(board, s), s,
                                        ToggleOf(Kind(At(board, p1)))))
                        = SafeTargets(board, p1, s)


------------------------------------------------------------------------------
(* C24: kings and knights *)

\* the number of nested plies of perft entered on the positions below
PieceDepth == 2

\* positions with kings, knights and rooks only
PiecePositions == <<
    \* a1xa8 checks the king on e8 along the rank; the knight on c6 can block
    <<"r", "3", "k", "3", "/",
      "8", "/",
      "2", "n", "5", "/",
      "8", "/",
      "8", "/",
      "8", "/",
      "8", "/",
      "R", "3", "K", "1", "N", "1", " ", "w">>,
    \* a knight pinned on the e-file, and two kings two rows apart
    <<"4", "r", "3", "/",
      "8", "/",
      "8", "/",
      "8", "/",
      "3", "k", "4", "/",
      "8", "/",
      "4", "N", "3", "/",
      "4", "K", "3", " ", "w">>
>>

\* a Board on one of these positions, before perft(board, board.turn)
InitPieces ==
    /\ game \in 1..Len(PiecePositions)
    /\ board = array_from_fen(PiecePositions[game])[1]
    /\ turn = array_from_fen(PiecePositions[game])[2]
    /\ half_moves = 0
    /\ past_states = <<>>
    /\ result = None
    /\ coord_input = <<>>
    /\ last_move = <<>>
    /\ last_op = "init"
    /\ last_arg = <<>>
    /\ last_ret = None
    /\ last_applied = FALSE
    /\ applied = 0
    /\ hist = <<>>
    /\ sim = <<>>

\* a pass of one of the two outer loops of perft; the fetch_all_moves of the
\* next loop calls the generators on the board it leaves
PiecePly == PerftPly(PieceDepth)

NextPieces == PiecePly \/ PerftRestore

SpecPieces == InitPieces /\ [][NextPieces]_vars

\* the squares the king of side s at p1 may step to: adjacent, not held by s,
\* and attacked by no piece of the other side once the king stands there
KingTargets(b, p1, s) ==
    {q \in PatternTargets(b, p1) : Attackers(update(b, p1, q), q, s) = {}}

\* the squares the knight of side s at p1 may jump to: not held by s, and
\* s's king is attacked by no piece of the other side after the jump
KnightTargets(b, p1, s) ==
    {q \in PatternTargets(b, p1) : Attackers(update(b, p1, q), find_king(b, s), s) = {}}

\* C24: king and knight generation is exact.  With one king per side, for
\* every king of side s at p1 gen_king_moves returns exactly the adjacent
\* squares not held by s that no enemy piece attacks once the king has moved
\* there, and for every knight gen_knight_moves returns exactly the jump
\* squares not held by s whose move leaves s's king unattacked.
C24_KingKnightExact ==
    OneKingEach(board) =>
        \A p1 \in Squares :
            \A s \in {Side(At(board, p1))} :
                /\ Kind(At(board, p1)) = 6 =>
                      Range(gen_king_moves(board, p1, p1, s)) = KingTargets(board, p1, s)
                /\ Kind(At(board, p1)) = 2 =>
                      Range(gen_knight_moves(board, p1, find_king(board, s), s))
                          = KnightTargets(board, p1, s)

\* inside perft, a king in check has a square behind it on the line of the
\* checking rook that is attacked only once the king has left its square, and
\* a knight of its side can block the check on one square but not on another
C24_Witness ==
    /\ sim # <<>>
    /\ OneKingEach(board)
    /\ \E s \in {0, 1} :
          /\ InCheck(board, s)
          /\ \E q \in PatternTargets(board, find_king(board, s)) :
                /\ Attackers(board, q, s) = {}
                /\ q \notin KingTargets(board, find_king(board, s), s)
          /\ \E p1 \in Squares :
                /\ Kind(At(board, p1)) = 2 /\ Holds(board, p1, s)
                /\ KnightTargets(board, p1, s) # {}
                /\ KnightTargets(board, p1, s) # PatternTargets(board, p1)

\* a knight pinned against its king has no move at all
C24_WitnessPinned ==
    /\ OneKingEach(board)
    /\ \E p1 \in Squares :
          /\ Kind(At(board, p1)) = 2
          /\ ~InCheck(board, Side(At(board, p1)))
          /\ PatternTargets(board, p1) # {}
          /\ gen_knight_moves(board, p1, find_king(board, Side(At(board, p1))),
                              Side(At(board, p1))) = <<>>

\* a king may not step beside the other king
C24_WitnessKings ==
    /\ OneKingEach(board)
    /\ \E s \in {0, 1} :
          \E q \in PatternTargets(board, find_king(board, s)) :
              /\ Attackers(update(board, find_king(board, s), q), q, s)
                     = {find_king(board, NotSide(s))}
              /\ ~InList(q, gen_king_moves(board, find_king(board, s),
                                           find_king(board, s), s))


------------------------------------------------------------------------------
(* C25: blocker geometry *)

\* the squares strictly between a1 and k1 on a shared rank, file or diagonal
Between(a1, k1) ==
    LET dr == k1[1] - a1[1]
        dc == k1[2] - a1[2]
    IN  IF dr = 0 \/ dc = 0 \/ Abs(dr) = Abs(dc)
        THEN {<<a1[1] + i * Sign(dr), a1[2] + i * Sign(dc)>> :
                 i \in 1..((IF Abs(dr) > Abs(dc) THEN Abs(dr) ELSE Abs(dc)) - 1)}
        ELSE {}

\* the (piece, target) pairs is_checkmate tries for the checking piece a1 and
\* the king k1 of side s: those of fetch_blockers that pass its bounds test
TriedBlockers(b, a1, k1, s) ==
    {pair \in Range(fetch_blockers(b, a1, k1, NotSide(s))) :
        OnBoard(pair[1]) /\ OnBoard(pair[2])}

\* C25: blocker geometry.  With one king per side, for every piece a1 that
\* checks the king k1 of side s, the targets of the pairs produced by
\* fetch_blockers and tried by is_checkmate are exactly the squares strictly
\* between a1 and k1, and each paired piece is a piece of s that can move to
\* its target.
C25_BlockerGeometry ==
    OneKingEach(board) =>
        \A s \in {0, 1} :
            \A k1 \in {find_king(board, s)} :
                \A a1 \in Range(fetch_attackers(board, k1, s)) :
                    \A tried \in {TriedBlockers(board, a1, k1, s)} :
                        /\ {pair[2] : pair \in tried} \subseteq Between(a1, k1)
                        /\ \A pair \in tried :
                              /\ Holds(board, pair[1], s)
                              /\ pair[2] \in PatternTargets(board, pair[1])


------------------------------------------------------------------------------
(* C26: the board the queries leave *)

RECURSIVE calls_board(_, _, _, _)
\* the board after the calls check_king(k1, p1, targets[m], side) for m = n,
\* n + 1, ...: each call makes the move and writes the two squares back
calls_board(b, p1, targets, n) ==
    IF n > Len(targets) THEN b
    ELSE CHOOSE r \in {calls_board(nb, p1, targets, n + 1) :
                           nb \in {check_king_board(b, p1, targets[n])}} : TRUE

\* the squares gen_ray_moves hands to check_king in one direction: those it
\* returns and, when the walk ends on a break, the square it broke on (the
\* tuple given to any() is built before any() looks at it)
ray_calls(b, p1, d, out) ==
    LET next == <<p1[1] + (Len(out) + 1) * d[1], p1[2] + (Len(out) + 1) * d[2]>>
    IN  IF OnBoard(next) /\ (out = <<>> \/ Kind(At(b, out[Len(out)])) = 0)
        THEN Append(out, next) ELSE out

RECURSIVE rays_calls(_, _, _, _, _, _)
\* the squares handed to check_king over the directions comp[from..to]
rays_calls(b, p1, k1, piece_side, from, to) ==
    IF from > to THEN <<>>
    ELSE ray_calls(b, p1, RayComp[from], ray_walk(b, p1, k1, piece_side, RayComp[from], 1))
         \o rays_calls(b, p1, k1, piece_side, from + 1, to)

\* the squares gen_pawn_moves and gen_passant hand to check_king
pawn_calls(b, lm, p1, piece_side) ==
    LET direct == IF piece_side = 1 THEN 1 ELSE -1
        q1 == <<p1[1] + direct, p1[2]>>
        q2 == <<p1[1] + 2 * direct, p1[2]>>
    IN  (IF ~(q1[1] >= 0 /\ q1[1] <= 7) \/ Kind(At(b, q1)) # 0 THEN <<>>
         ELSE <<q1>> \o (IF ~(q2[1] >= 0 /\ q2[1] <= 7)
                            \/ Kind(At(b, q2)) # 0 \/ ~(p1[1] = 1 \/ p1[1] = 6)
                         THEN <<>> ELSE <<q2>>))
        \o (IF lm = <<>> THEN <<>> ELSE <<passant_p2(lm, p1, piece_side)>>)

\* the squares fetch_moves(p1) hands to check_king, in the order of the calls
fetch_moves_calls(b, lm, p1, k1) ==
    LET tile == At(b, p1)
        s == Side(tile)
    IN  CASE Kind(tile) = 1 -> pawn_calls(b, lm, p1, s)
          [] Kind(tile) = 2 -> SelectSeq(Shifted(p1, KnightOffsets), OnBoard)
          [] Kind(tile) = 3 -> rays_calls(b, p1, k1, s, 1, 4)
          [] Kind(tile) = 4 -> rays_calls(b, p1, k1, s, 5, 8)
          [] Kind(tile) = 5 -> rays_calls(b, p1, k1, s, 1, 8)
          [] Kind(tile) = 6 ->
               SelectSeq(Shifted(p1, KingOffsets),
                         LAMBDA p2 : OnBoard(p2)
                                     /\ ~(Kind(At(b, p2)) # 0 /\ Side(At(b, p2)) = s))
          [] OTHER -> <<>>

\* the board fetch_moves(p1) leaves
fetch_moves_board(b, lm, p1) ==
    calls_board(b, p1, fetch_moves_calls(b, lm, p1, find_king(b, Side(At(b, p1)))), 1)

RECURSIVE row_moves_board(_, _, _, _, _)
\* the board the inner loop of fetch_all_moves leaves, from column j of row i
row_moves_board(b, lm, side, i, j) ==
    IF j > 7 THEN b
    ELSE IF Kind(b[i][j]) # 0 /\ Side(b[i][j]) = side
    THEN CHOOSE r \in {row_moves_board(nb, lm, side, i, j + 1) :
                           nb \in {fetch_moves_board(b, lm, <<i, j>>)}} : TRUE
    ELSE row_moves_board(b, lm, side, i, j + 1)

RECURSIVE rows_moves_board(_, _, _, _)
rows_moves_board(b, lm, side, i) ==
    IF i > 7 THEN b
    ELSE CHOOSE r \in {rows_moves_board(nb, lm, side, i + 1) :
                           nb \in {row_moves_board(b, lm, side, i, 0)}} : TRUE

\* the board fetch_all_moves(side) leaves
fetch_all_moves_board(b, lm, side) == rows_moves_board(b, lm, side, 0)

\* a variant of the blocker trial that leaves the trial move on the board
trial_board_kept(b, blocker) == update(b, blocker[1], blocker[2])

\* the blocker trial of is_checkmate: update(b1, b2), then the two squares
\* are written back from stored_data
trial_board(b, blocker) ==
    restore(update(b, blocker[1], blocker[2]), blocker[1], blocker[2],
            snapshot(b, blocker[1], blocker[2]))

RECURSIVE blockers_board(_, _, _, _, _)
\* the board the blocker loop of is_checkmate leaves, from blockers[n] on:
\* pairs off the board are skipped, and the loop is left by "return False"
\* after the trial that relieves the king, once the squares are written back
blockers_board(b, k1, side, blockers, n) ==
    IF n > Len(blockers) THEN b
    ELSE IF ~OnBoard(blockers[n][1]) \/ ~OnBoard(blockers[n][2])
    THEN blockers_board(b, k1, side, blockers, n + 1)
    ELSE IF blocker_relieves(b, k1, side, blockers[n]) THEN trial_board(b, blockers[n])
    ELSE CHOOSE r \in {blockers_board(nb, k1, side, blockers, n + 1) :
                           nb \in {trial_board(b, blockers[n])}} : TRUE

\* is_checkmate reaches its blocker loop
reaches_blockers(b, lm, a1, k1, side) ==
    LET defenders == fetch_attackers(b, a1, side)
    IN  /\ Kind(At(b, k1)) = 6
        /\ Side(At(b, a1)) # Side(At(b, k1))
        /\ fetch_moves(b, lm, k1) = <<>>
        /\ ~\E n \in 1..Len(defenders) :
               IF Kind(At(b, defenders[n])) = 6
               THEN fetch_attackers(b, a1, NotSide(side)) = <<>>
               ELSE TRUE
        /\ Kind(At(b, a1)) # 2

\* the board is_checkmate(a1, k1, side) leaves: fetch_moves(k1) is called
\* while the tuple of its first test is built, then come the blocker trials
is_checkmate_board(b, lm, a1, k1, side) ==
    IF reaches_blockers(b, lm, a1, k1, side)
    THEN CHOOSE r \in {blockers_board(nb, k1, side,
                                       fetch_blockers(b, a1, k1, NotSide(side)), 1) :
                           nb \in {fetch_moves_board(b, lm, k1)}} : TRUE
    ELSE fetch_moves_board(b, lm, k1)

RECURSIVE attackers_board(_, _, _, _, _, _)
\* the board "for a1 in attackers: if self.is_checkmate(a1, k1, side): return"
\* leaves, from attackers[n] on
attackers_board(b, lm, attackers, k1, side, n) ==
    IF n > Len(attackers) THEN b
    ELSE IF is_checkmate(b, lm, attackers[n], k1, side)
    THEN is_checkmate_board(b, lm, attackers[n], k1, side)
    ELSE CHOOSE r \in {attackers_board(nb, lm, attackers, k1, side, n + 1) :
                           nb \in {is_checkmate_board(b, lm, attackers[n], k1, side)}} : TRUE

\* the board the loop over the attackers of the king of side i leaves
king_board(b, lm, k, i) == attackers_board(b, lm, fetch_attackers(b, k, i), k, i, 1)

\* the board mate_check leaves: side 0, then side 1 unless a mate was found
mate_check_board(b, lm) ==
    IF any_checkmate(b, lm, fetch_attackers(b, find_king(b, 0), 0), find_king(b, 0), 0)
    THEN king_board(b, lm, find_king(b, 0), 0)
    ELSE CHOOSE r \in {king_board(nb, lm, find_king(b, 1), 1) :
                           nb \in {king_board(b, lm, find_king(b, 0), 0)}} : TRUE

RECURSIVE kings_board(_, _, _, _)
\* the board evaluate leaves: the kings are met in row-major order, and the
\* method returns at the first mate
kings_board(b, lm, kings, n) ==
    IF n > Len(kings) THEN b
    ELSE IF any_checkmate(b, lm, fetch_attackers(b, kings[n], Side(At(b, kings[n]))),
                          kings[n], Side(At(b, kings[n])))
    THEN king_board(b, lm, kings[n], Side(At(b, kings[n])))
    ELSE CHOOSE r \in {kings_board(nb, lm, kings, n + 1) :
                           nb \in {king_board(b, lm, kings[n], Side(At(b, kings[n])))}} : TRUE

\* the squares holding a king, in row-major order
kings_in_order(b) ==
    SelectSeq([n \in 1..64 |-> <<(n - 1) \div 8, (n - 1) % 8>>],
              LAMBDA p : Kind(At(b, p)) = 6)

evaluate_board(b, lm) == kings_board(b, lm, kings_in_order(b), 1)

RECURSIVE stalemate_row_board(_, _, _, _, _)
\* the board and the flags ws, bs the inner loop of is_stalemate leaves, from
\* column j of row i; done is set by "return False"
stalemate_row_board(st, lm, i, j, n) ==
    IF j > 7 \/ st.done THEN st
    ELSE IF Kind(st.board[i][j]) = 0 THEN stalemate_row_board(st, lm, i, j + 1, n)
    ELSE LET has == fetch_moves(st.board, lm, <<i, j>>) # <<>>
             ws == st.ws /\ ~(has /\ Side(st.board[i][j]) = 1)
             bs == st.bs /\ ~(has /\ Side(st.board[i][j]) # 1)
         IN  CHOOSE r \in {stalemate_row_board(nst, lm, i, j + 1, n) :
                              nst \in {[board |-> fetch_moves_board(st.board, lm, <<i, j>>),
                                        ws |-> ws, bs |-> bs, done |-> ~ws /\ ~bs]}} : TRUE

RECURSIVE stalemate_rows_board(_, _, _)
stalemate_rows_board(st, lm, i) ==
    IF i > 7 \/ st.done THEN st
    ELSE CHOOSE r \in {stalemate_rows_board(nst, lm, i + 1) :
                           nst \in {stalemate_row_board(st, lm, i, 0, 0)}} : TRUE

\* the board is_stalemate leaves
is_stalemate_board(b, lm) ==
    stalemate_rows_board([board |-> b, ws |-> TRUE, bs |-> TRUE, done |-> FALSE], lm, 0).board

\* the queries, by name of the method called
Queries == {"fetch_moves", "fetch_all_moves", "is_checkmate", "is_stalemate",
            "mate_check", "evaluate"}

\* a call of one of the queries: board_after is the board the method leaves;
\* none of them assigns turn, result or last_move
Query(name, board_after) ==
    /\ board' = board_after
    /\ last_op' = name
    /\ last_arg' = <<>>
    /\ last_ret' = None
    /\ last_applied' = FALSE
    /\ UNCHANGED <<turn, half_moves, past_states, result, coord_input, last_move, game,
                   applied, hist, sim>>

FetchMoves(p1) == Query("fetch_moves", fetch_moves_board(board, last_move, p1))

FetchAllMoves(side) == Query("fetch_all_moves", fetch_all_moves_board(board, last_move, side))

\* is_checkmate as its callers call it: a1 attacks the king of side at k1
IsCheckmate(side) ==
    \E k1 \in {find_king(board, side)} :
        \E a1 \in Range(fetch_attackers(board, k1, side)) :
            Query("is_checkmate", is_checkmate_board(board, last_move, a1, k1, side))

IsStalemate == Query("is_stalemate", is_stalemate_board(board, last_move))

MateCheck == Query("mate_check", mate_check_board(board, last_move))

Evaluate == Query("evaluate", evaluate_board(board, last_move))

\* the queries are called on the starting positions of the games and on the
\* boards one ply of perft leaves while it is inside its loop
NextQuery ==
    \/ PerftApply
    \/ PerftRestore
    \/ \E p1 \in Squares : FetchMoves(p1)
    \/ \E side \in {0, 1} : FetchAllMoves(side)
    \/ \E side \in {0, 1} : IsCheckmate(side)
    \/ IsStalemate
    \/ MateCheck
    \/ Evaluate

SpecQuery == Init /\ [][NextQuery]_vars

\* C26: queries are side-effect free.  fetch_moves, fetch_all_moves,
\* is_checkmate, is_stalemate, mate_check and evaluate each return with every
\* square of the board, turn, result and last_move as they were before the
\* call, whichever way the method is left.
C26_QueriesLeaveBoard ==
    [][last_op' \in Queries =>
          /\ board' = board
          /\ turn' = turn
          /\ result' = result
          /\ last_move' = last_move]_vars

\* is_checkmate has been called inside a ply of perft for a check in which it
\* tried at least one blocker pair
C26_Witness ==
    /\ last_op = "is_checkmate"
    /\ sim # <<>>
    /\ \E side \in {0, 1} :
          \E k1 \in {find_king(board, side)} :
              \E a1 \in Range(fetch_attackers(board, k1, side)) :
                  /\ reaches_blockers(board, last_move, a1, k1, side)
                  /\ TriedBlockers(board, a1, k1, side) # {}


------------------------------------------------------------------------------
(* C27: the number of kings *)

\* C27: king-count invariant.  Every game starts with one king per side, and
\* after any sequence of set_input and execute_input calls each side still
\* has exactly one king on the board.
C27_KingCount ==
    \A s \in {0, 1} :
        Cardinality({p \in Squares : Kind(At(board, p)) = 6 /\ Side(At(board, p)) = s}) = 1


------------------------------------------------------------------------------
(* C28: stale input *)

\* C28: no stale input is executed.  A call of execute_input applies a move
\* only when the call before it was a set_input that returned True, and the
\* move applied is the one that call was given.
C28_NoStaleInput ==
    [][(last_op' = "execute_input" /\ last_applied') =>
          /\ last_op = "set_input"
          /\ last_ret = "True"
          /\ coord_input' = set_input(board, turn, result, <<>>, last_arg).coord_input]_vars


------------------------------------------------------------------------------
(* C29: the mover's king after an accepted move *)

\* C29: accepted moves never expose the mover's king.  After a call of
\* execute_input that applies a move, no king of the side that moved is
\* attacked on the resulting board; a call that applies nothing, the moves of
\* fetch_moves that move_piece backs out included, leaves board, turn and
\* last_move as they were.
C29_MoverKingSafe ==
    [][last_op' = "execute_input" =>
          IF last_applied'
          THEN /\ turn' = NotSide(turn)
               /\ \A k \in Squares :
                     (Kind(At(board', k)) = 6 /\ Side(At(board', k)) = turn)
                         => Attackers(board', k, turn) = {}
          ELSE /\ board' = board
               /\ turn' = turn
               /\ last_move' = last_move]_vars

\* execute_input has backed out a move that fetch_moves offered and that
\* would have left the mover's king attacked
C29_Witness ==
    /\ last_op = "execute_input"
    /\ ~last_applied
    /\ result = None
    /\ coord_input # <<>>
    /\ OneKingEach(board)
    /\ InList(coord_input[2], fetch_moves(board, last_move, coord_input[1]))
    /\ \E after \in {moved_board(board, turn, coord_input[1], coord_input[2], "q")} :
          Attackers(after, find_king(after, turn), turn) # {}


------------------------------------------------------------------------------
(* C30: the moved flags *)

\* the moved flag of every square
FlagsOf(b) == [p \in Squares |-> Moved(At(b, p))]

\* the board the game started from
InitialBoard == array_from_fen(Games[game].fen)[1]

\* the boards left by the simulations a call of execute_input runs: the
\* check_king calls of fetch_moves on the pending origin and, once a move is
\* applied, the is_checkmate calls for the king of the side now to move and
\* the sweep of is_stalemate
SimulationBoards(before, ci, lm, app, after, t, res) ==
    (IF ci = <<>> THEN {} ELSE {<<before, fetch_moves_board(before, lm, ci[1])>>})
    \cup (IF app THEN {<<after, king_board(after, lm, find_king(after, t), t)>>} ELSE {})
    \cup (IF app /\ res \in {None, "stalemate"}
          THEN {<<after, is_stalemate_board(after, lm)>>} ELSE {})

\* C30: moved-flag invariant.  In every step of a game that changes the
\* board, a square whose moved flag is 0 afterwards holds what it held before
\* the step and what it held in the initial position, so a flag never returns
\* to 0 and every piece that has moved, come back or taken another piece's
\* home square carries flag 1; and the simulations run inside execute_input
\* leave every moved flag as it was.
C30_MovedFlags ==
    [][/\ board' # board =>
             \E initial \in {InitialBoard} :
                 \A p \in Squares :
                     Moved(At(board', p)) = 0 =>
                         /\ At(board', p) = At(board, p)
                         /\ At(board', p) = At(initial, p)
       /\ last_op' = "execute_input" =>
             \A pair \in SimulationBoards(board, coord_input, last_move, last_applied',
                                          board', turn', result') :
                 FlagsOf(pair[2]) = FlagsOf(pair[1])]_vars

\* a king or rook has just moved back to the square a piece of its kind and
\* side held in the initial position with flag 0, and carries flag 1 there
C30_Witness ==
    /\ last_op = "execute_input"
    /\ last_applied
    /\ \E p \in {coord_input[2]} :
          /\ Kind(At(board, p)) \in {4, 6}
          /\ Kind(At(board, p)) = Kind(At(InitialBoard, p))
          /\ Side(At(board, p)) = Side(At(InitialBoard, p))
          /\ Moved(At(InitialBoard, p)) = 0
          /\ Moved(At(board, p)) = 1

====
